---------------------------- MODULE Spec2Model ----------------------------
(***************************************************************************)
(* Verification model of the preferred-value component solvers of          *)
(* synth-calculators (src/lib/sklp/solve.ts and its two siblings).         *)
(*                                                                         *)
(* The code computes on JavaScript numbers.  A number is modelled as a     *)
(* floating-point value with a 16-digit decimal significand, correctly     *)
(* rounded (half to even) after every operation, with +-Infinity, NaN,     *)
(* overflow and underflow: the same precision class as binary64, so that   *)
(* rounding, absorption and cancellation happen where they happen in the   *)
(* code, and the code's absolute tolerances (Number.EPSILON, 1e-9) keep    *)
(* their size relative to the rounding noise.                              *)
(***************************************************************************)
EXTENDS Integers, Sequences, FiniteSets, TLC

(***************************************************************************)
(* Natural numbers of any size: little-endian sequences of base-10^4 limbs *)
(***************************************************************************)
B == 10 * 1000

Pow10(n) == <<1, 10, 100, 1000, 10 * 1000>>[n + 1]

MaxI(a, b) == IF a >= b THEN a ELSE b

MinI(a, b) == IF a <= b THEN a ELSE b

Limb(N, i) == IF i >= 1 /\ i <= Len(N) THEN N[i] ELSE 0

\* the sequence N as an explicit tuple
Tup(N) == N \o <<>>

\* N without its leading (high) zero limbs
BigTrim(N) ==
  IF Len(N) = 0 THEN N
  ELSE LET nz == {i \in 1..Len(N) : N[i] # 0}
       IN  IF nz = {} THEN <<>>
           ELSE SubSeq(N, 1, CHOOSE i \in nz : \A j \in nz : j <= i)

RECURSIVE Carry(_, _, _)
\* the limbs of the columns cols from column k on, carry c coming in, and the
\* carry out of the last column as the last element
Carry(cols, k, c) ==
  IF k > Len(cols) THEN <<c>>
  ELSE <<(cols[k] + c) % B>> \o Carry(cols, k + 1, (cols[k] + c) \div B)

\* the limbs of the number whose columns (of any sign and size) are cols,
\* for a number >= 0
CarryFrom(cols) ==
  IF Len(cols) = 0 THEN <<>> ELSE BigTrim(Carry(cols \o <<0, 0>>, 1, 0))

BigAdd(X, Y) ==
  IF Len(X) = 0 THEN Y
  ELSE IF Len(Y) = 0 THEN X
  ELSE CarryFrom(Tup([i \in 1..MaxI(Len(X), Len(Y)) |-> Limb(X, i) + Limb(Y, i)]))

\* X - Y for X >= Y
BigSub(X, Y) ==
  IF Len(X) = 0 \/ Len(Y) = 0 THEN X
  ELSE CarryFrom(Tup([i \in 1..Len(X) |-> X[i] - Limb(Y, i)]))

\* -1, 0, 1 for trimmed X, Y
BigCmp(X, Y) ==
  IF Len(X) < Len(Y) THEN -1
  ELSE IF Len(X) > Len(Y) THEN 1
  ELSE LET df == {i \in 1..Len(X) : X[i] # Y[i]}
       IN  IF df = {} THEN 0
           ELSE LET i == CHOOSE i \in df : \A j \in df : j <= i
                IN  IF X[i] < Y[i] THEN -1 ELSE 1

\* N * k for 0 <= k < 10^5
BigMulSmall(N, k) ==
  IF k = 0 \/ Len(N) = 0 THEN <<>>
  ELSE CarryFrom(Tup([i \in 1..Len(N) |-> N[i] * k]))

\* column k of the product of X and Y, each of at most 6 limbs
ColSum(X, Y, k) ==
  Limb(X, 1) * Limb(Y, k) + Limb(X, 2) * Limb(Y, k - 1)
  + Limb(X, 3) * Limb(Y, k - 2) + Limb(X, 4) * Limb(Y, k - 3)
  + Limb(X, 5) * Limb(Y, k - 4) + Limb(X, 6) * Limb(Y, k - 5)

\* X * Y, both of at most 6 limbs
BigMul(X, Y) ==
  IF Len(X) = 0 \/ Len(Y) = 0 THEN <<>>
  ELSE CarryFrom(Tup([k \in 1..(Len(X) + Len(Y) - 1) |-> ColSum(X, Y, k)]))

\* N * 10^d
BigMulPow10(N, d) ==
  IF Len(N) = 0 THEN N
  ELSE [i \in 1..(d \div 4) |-> 0] \o BigMulSmall(N, Pow10(d % 4))

DigitsOfLimb(x) ==
  IF x >= 1000 THEN 4 ELSE IF x >= 100 THEN 3 ELSE IF x >= 10 THEN 2 ELSE 1

\* number of decimal digits of a trimmed N > 0
BigNumDigits(N) == 4 * (Len(N) - 1) + DigitsOfLimb(N[Len(N)])

\* R - q * V as <<limbs 1..5, sign>>, sign < 0 when R < q * V; R of at most
\* 5 limbs, V of 4
SubMul(R, V, q) ==
  Carry(<<Limb(R, 1) - q * V[1], Limb(R, 2) - q * V[2], Limb(R, 3) - q * V[3],
          Limb(R, 4) - q * V[4], Limb(R, 5)>>, 1, 0)

RECURSIVE DivTry(_, _, _)
\* <<q, R - q * V>> if that is not negative, else the same for q - 1
DivPick(s, R, V, q) ==
  IF s[6] >= 0 THEN <<q, SubSeq(s, 1, 4)>> ELSE DivTry(R, V, q - 1)

DivTry(R, V, q) == DivPick(SubMul(R, V, q), R, V, q)

\* <<q, r>> with R = q * V + r, 0 <= r < V, for R < V * B and V[4] >= B / 2:
\* the estimate from the leading limbs is the quotient or at most 2 above it
DivLimb(R, V) ==
  IF Limb(R, 5) = 0 /\ Limb(R, 4) = 0
  THEN <<0, <<Limb(R, 1), Limb(R, 2), Limb(R, 3), 0>>>>
  ELSE DivTry(R, V, MinI(B - 1, (Limb(R, 5) * B + Limb(R, 4)) \div V[4]))

RECURSIVE DivSteps(_, _, _)
\* the quotient so far with one more (lower) limb q
DivPrepend(rest, q) == <<rest[1] \o <<q>>, rest[2]>>

\* d is the limb step <<q, r>>: the n - 1 limbs that follow it, then q
DivNext(d, V, n) ==
  IF n = 1 THEN <<<<d[1]>>, d[2] # <<0, 0, 0, 0>>>>
  ELSE DivPrepend(DivSteps(<<0>> \o d[2], V, n - 1), d[1])

\* n limbs of the quotient of R * B^(n - 1) by V, lowest first, and whether a
\* remainder is left
DivSteps(R, V, n) ==
  IF Len(R) = 0 THEN <<>> ELSE DivNext(DivLimb(R, V), V, n)

\* the operands of the division scaled by f, which brings V[4] to B / 2 or more
DivScaled(X, V, f) ==
  DivSteps(CarryFrom(<<X[1] * 10 * f, X[2] * 10 * f, X[3] * 10 * f, X[4] * 10 * f>>),
           CarryFrom(<<V[1] * f, V[2] * f, V[3] * f, V[4] * f>>), 5)

\* <<Q, nz>>: Q = floor(X * 10 * B^4 / V) and whether a remainder is left,
\* for 16-digit X and V
DivTrimmed(qr) == <<BigTrim(qr[1]), qr[2]>>

BigDivMod(X, V) == DivTrimmed(DivScaled(X, V, B \div (V[4] + 1)))

RECURSIVE ISqrtIter(_, _)
\* floor(sqrt(t)) by Newton's iteration from x >= sqrt(t)
ISqrtIter(t, x) ==
  LET y == (x + t \div x) \div 2
  IN  IF y >= x THEN x ELSE ISqrtIter(t, y)

(***************************************************************************)
(* Numbers: [k, s, m, e] is s * m * 10^e, m a 16-digit significand         *)
(***************************************************************************)
ExpMax == 308 - 15

ExpMin == (-323) - 15

NoLimbs == <<0, 0, 0, 0>>

Zero == [k |-> "zero", s |-> 1, m |-> NoLimbs, e |-> 0]

NaN == [k |-> "nan", s |-> 1, m |-> NoLimbs, e |-> 0]

Inf(s) == [k |-> "inf", s |-> s, m |-> NoLimbs, e |-> 0]

\* the significand of the largest finite number, 1.797693134862315e308
MaxMantissa == <<2315, 1348, 6931, 1797>>

Fin(s, m, e) ==
  IF e > ExpMax \/ (e = ExpMax /\ BigCmp(m, MaxMantissa) > 0) THEN Inf(s)
  ELSE IF e < ExpMin THEN Zero
  ELSE [k |-> "fin", s |-> s, m |-> m, e |-> e]

\* the significand M rounded up when up, with exponent E
RoundUp(s, M, up, E) ==
  IF ~up THEN Fin(s, M, E)
  ELSE IF M = <<9999, 9999, 9999, 9999>> THEN Fin(s, <<0, 0, 0, 1000>>, E + 1)
  ELSE Fin(s, BigAdd(M, <<1>>), E)

\* N cut after its 16 leading digits: a limbs and b digits are dropped; p, q
\* are 10^b and 10^(4 - b)
RoundCut(s, N, E, a, b, p, q) ==
  LET guard  == IF a = 0 /\ b = 0 THEN 0
                ELSE IF b >= 1 THEN (N[a + 1] % p) \div Pow10(b - 1)
                ELSE N[a] \div 1000
      sticky == IF a = 0 /\ b = 0 THEN FALSE
                ELSE IF b >= 1
                     THEN (N[a + 1] % Pow10(b - 1) # 0) \/ (\E i \in 1..a : N[i] # 0)
                     ELSE (N[a] % 1000 # 0) \/ (\E i \in 1..(a - 1) : N[i] # 0)
      low    == (Limb(N, a + 1) \div p) + (Limb(N, a + 2) % p) * q
  IN  RoundUp(s, << low,
                    (Limb(N, a + 2) \div p) + (Limb(N, a + 3) % p) * q,
                    (Limb(N, a + 3) \div p) + (Limb(N, a + 4) % p) * q,
                    (Limb(N, a + 4) \div p) + (Limb(N, a + 5) % p) * q >>,
              guard > 5 \/ (guard = 5 /\ (sticky \/ low % 2 = 1)), E)

\* N0 of nd0 digits, padded below with z zero limbs to 16 digits or more
RoundPadded(s, N0, E0, z, drop) ==
  RoundCut(s, [i \in 1..z |-> 0] \o N0, E0 - 4 * z + drop,
           drop \div 4, drop % 4, Pow10(drop % 4), Pow10(4 - (drop % 4)))

RoundDigits(s, N0, E0, nd0, z) == RoundPadded(s, N0, E0, z, nd0 + 4 * z - 16)

\* s * N * 10^E rounded to 16 significant digits, half to even
Round(s, N0, E0) ==
  IF Len(N0) = 0 THEN Zero
  ELSE RoundDigits(s, N0, E0, BigNumDigits(N0),
                   IF BigNumDigits(N0) >= 16 THEN 0
                   ELSE (16 - BigNumDigits(N0) + 3) \div 4)

\* the number n * 10^e for an integer n, |n| < 2^31 (a literal of the source)
Lit(n, e) ==
  IF n = 0 THEN Zero
  ELSE IF n > 0 THEN Round(1, CarryFrom(<<n>>), e)
  ELSE Round(-1, CarryFrom(<<-n>>), e)

\* a literal of up to 16 digits, given as its high and low 8 digits
Lit16(hi, lo, e) ==
  Round(1, BigTrim(<<lo % B, lo \div B, hi % B, hi \div B>>), e)

IsFinite(x) == x.k \in {"fin", "zero"}

IsNaN(x) == x.k = "nan"

FNeg(x) == IF x.k \in {"fin", "inf"} THEN [x EXCEPT !.s = -x.s] ELSE x

FAbs(x) == IF x.k \in {"fin", "inf"} THEN [x EXCEPT !.s = 1] ELSE x

\* -1, 0, 1 for two numbers that are not NaN
Cmp(x, y) ==
  LET sx == IF x.k = "zero" THEN 0 ELSE x.s
      sy == IF y.k = "zero" THEN 0 ELSE y.s
      mag == IF x.k = "inf" THEN (IF y.k = "inf" THEN 0 ELSE 1)
             ELSE IF y.k = "inf" THEN -1
             ELSE IF x.e # y.e THEN (IF x.e < y.e THEN -1 ELSE 1)
             ELSE BigCmp(x.m, y.m)
  IN  IF sx # sy THEN (IF sx < sy THEN -1 ELSE 1)
      ELSE IF sx = 0 THEN 0
      ELSE sx * mag

FLt(x, y) == ~IsNaN(x) /\ ~IsNaN(y) /\ Cmp(x, y) < 0

FLe(x, y) == ~IsNaN(x) /\ ~IsNaN(y) /\ Cmp(x, y) <= 0

FGt(x, y) == FLt(y, x)

FGe(x, y) == FLe(y, x)

FEq(x, y) == ~IsNaN(x) /\ ~IsNaN(y) /\ Cmp(x, y) = 0

FMul(x, y) ==
  IF IsNaN(x) \/ IsNaN(y) THEN NaN
  ELSE IF x.k = "inf" \/ y.k = "inf"
       THEN (IF x.k = "zero" \/ y.k = "zero" THEN NaN ELSE Inf(x.s * y.s))
  ELSE IF x.k = "zero" \/ y.k = "zero" THEN Zero
  ELSE Round(x.s * y.s, BigMul(x.m, y.m), x.e + y.e)

\* ten times the quotient, plus one when a remainder is left: the digits that
\* decide the rounding
DivSticky(qr) == BigAdd(BigMulSmall(qr[1], 10), IF qr[2] THEN <<1>> ELSE <<>>)

FDiv(x, y) ==
  IF IsNaN(x) \/ IsNaN(y) THEN NaN
  ELSE IF x.k = "inf" THEN (IF y.k = "inf" THEN NaN ELSE Inf(x.s * y.s))
  ELSE IF y.k = "inf" THEN Zero
  ELSE IF y.k = "zero" THEN (IF x.k = "zero" THEN NaN ELSE Inf(x.s))
  ELSE IF x.k = "zero" THEN Zero
  ELSE Round(x.s * y.s, DivSticky(BigDivMod(x.m, y.m)), x.e - y.e - 18)

\* x + y for finite nonzero x, y with x.e >= y.e; X is the significand of x
\* at the exponent of y and c its comparison with that of y
AddSigned(x, y, X, c) ==
  Round(IF x.s = y.s \/ c > 0 THEN x.s ELSE y.s,
        IF x.s = y.s THEN BigAdd(X, y.m)
        ELSE IF c >= 0 THEN BigSub(X, y.m) ELSE BigSub(y.m, X),
        y.e)

AddShifted(x, y, X) == AddSigned(x, y, X, BigCmp(X, y.m))

AddAligned(x, y) ==
  IF x.e - y.e >= 18 THEN x
  ELSE AddShifted(x, y, BigMulPow10(x.m, x.e - y.e))

FAdd(x, y) ==
  IF IsNaN(x) \/ IsNaN(y) THEN NaN
  ELSE IF x.k = "inf" THEN (IF y.k = "inf" /\ y.s # x.s THEN NaN ELSE x)
  ELSE IF y.k = "inf" THEN y
  ELSE IF x.k = "zero" THEN y
  ELSE IF y.k = "zero" THEN x
  ELSE AddAligned(IF x.e >= y.e THEN x ELSE y, IF x.e >= y.e THEN y ELSE x)

FSub(x, y) == FAdd(x, FNeg(y))

TenTo15 == <<0, 0, 0, 1000>>

AllNines == <<9999, 9999, 9999, 9999>>

RECURSIVE SqrtAdjust(_, _, _, _)
\* T is 4 * x and loT, loR, hiR the bounds scaled alike: r is right when
\* loR^2 <= loT and T <= hiR^2
SqrtBounds(xm, xe, r, e, T, loT, loR, hiR) ==
  IF BigCmp(loT, BigMul(loR, loR)) < 0
  THEN (IF r = TenTo15 THEN SqrtAdjust(xm, xe, AllNines, e - 1)
        ELSE SqrtAdjust(xm, xe, BigSub(r, <<1>>), e))
  ELSE IF BigCmp(T, BigMul(hiR, hiR)) > 0
  THEN (IF r = AllNines THEN SqrtAdjust(xm, xe, TenTo15, e + 1)
        ELSE SqrtAdjust(xm, xe, BigAdd(r, <<1>>), e))
  ELSE Fin(1, r, e)

SqrtScaled(xm, xe, r, e, T) ==
  IF r = TenTo15
  THEN SqrtBounds(xm, xe, r, e, T, BigMulSmall(T, 100),
                  BigSub(BigMulSmall(r, 20), <<1>>), BigAdd(BigMulSmall(r, 2), <<1>>))
  ELSE SqrtBounds(xm, xe, r, e, T, T,
                  BigSub(BigMulSmall(r, 2), <<1>>), BigAdd(BigMulSmall(r, 2), <<1>>))

\* the 16-digit r * 10^e nearest to sqrt(xm * 10^xe), from a candidate r * 10^e
\* within a few units of it: r is right when (r - h)^2 <= x <= (r + 1/2)^2,
\* h = 1/2, or 1/20 for r = 10^15, below which the spacing is ten times finer
SqrtAdjust(xm, xe, r, e) ==
  SqrtScaled(xm, xe, r, e, BigMulPow10(BigMulSmall(xm, 4), xe - 2 * e))

\* one step of Newton's iteration for sqrt(x)
SqrtStep(x, g) == FMul(Lit(5, -1), FAdd(g, FDiv(x, g)))

RECURSIVE SqrtNewton(_, _, _)
\* n steps of the iteration from g, then the adjustment to the nearest
SqrtNewton(x, g, n) ==
  IF g.k # "fin" THEN g
  ELSE IF n = 0 THEN SqrtAdjust(x.m, x.e, g.m, g.e)
  ELSE SqrtNewton(x, SqrtStep(x, g), n - 1)

\* the first estimate, from the two leading limbs t of the significand
SqrtGuess(x, t) ==
  IF x.e % 2 = 0 THEN Lit(ISqrtIter(t, 4 * B), 4 + x.e \div 2)
  ELSE Lit(ISqrtIter(10 * t, 4 * B), 4 + (x.e - 1) \div 2)

\* Math.sqrt, correctly rounded
FSqrt(x) ==
  IF IsNaN(x) THEN NaN
  ELSE IF x.k = "zero" THEN Zero
  ELSE IF x.s < 0 THEN NaN
  ELSE IF x.k = "inf" THEN x
  ELSE SqrtNewton(x, SqrtGuess(x, x.m[4] * B + x.m[3]), 3)

\* Math.max, Math.min
FMax(x, y) == IF IsNaN(x) \/ IsNaN(y) THEN NaN ELSE IF Cmp(x, y) >= 0 THEN x ELSE y

FMin(x, y) == IF IsNaN(x) \/ IsNaN(y) THEN NaN ELSE IF Cmp(x, y) <= 0 THEN x ELSE y

\* the number whose 16 digits are those of the four groups a b c d, times 10^e
Dec(a, b, c, d, e) == [k |-> "fin", s |-> 1, m |-> <<d, c, b, a>>, e |-> e]

One == Dec(1000, 0, 0, 0, -15)

Two == Dec(2000, 0, 0, 0, -15)

Four == Dec(4000, 0, 0, 0, -15)

Half == Dec(5000, 0, 0, 0, -16)

\* Number.EPSILON, 2^-52 = 2.220446049250313e-16
EPSILON == Dec(2220, 4460, 4925, 313, -31)

\* Math.PI = 3.141592653589793
PI == Dec(3141, 5926, 5358, 9793, -15)

\* Math.SQRT1_2 = 0.7071067811865476
SQRT1_2 == Dec(7071, 678, 1186, 5476, -16)

\* Math.LN10 = 2.302585092994046
LN10 == Dec(2302, 5850, 9299, 4046, -15)

\* an argument that was not passed
Undefined == [k |-> "undefined", s |-> 1, m |-> NoLimbs, e |-> 0]

\* ToBoolean of a number or undefined: false for undefined, NaN and 0
Truthy(x) == x.k \in {"fin", "inf"}

\* Number.parseFloat(x.toPrecision(12)): x to 12 significant digits, ties up
ToPrecision12(x) ==
  IF x.k # "fin" THEN x
  ELSE Round(x.s, IF x.m[1] >= B \div 2
                  THEN BigAdd(<<0, x.m[2], x.m[3], x.m[4]>>, <<0, 1>>)
                  ELSE <<0, x.m[2], x.m[3], x.m[4]>>, x.e)

\* the integer part int of |x| with whether a fraction is left, signed: floor
FloorSigned(x, int, frac) ==
  IF x.s > 0 THEN int ELSE IF frac THEN -int - 1 ELSE -int

\* Math.floor of a number |x| < 10^4, as an integer; d digits of the leading
\* limb are behind the point
FloorDigits(x, d) ==
  IF d > 4 THEN FloorSigned(x, 0, TRUE)
  ELSE FloorSigned(x, x.m[4] \div Pow10(d),
                   x.m[4] % Pow10(d) # 0 \/ x.m[3] # 0 \/ x.m[2] # 0 \/ x.m[1] # 0)

FloorInt(x) == IF x.k # "fin" THEN 0 ELSE FloorDigits(x, (-12) - x.e)

\* the reference points of the logarithm and their natural logarithms
LogPoint == <<One, Dec(1500, 0, 0, 0, -15), Dec(2200, 0, 0, 0, -15),
              Dec(3300, 0, 0, 0, -15), Dec(4700, 0, 0, 0, -15),
              Dec(6800, 0, 0, 0, -15), Dec(1000, 0, 0, 0, -14)>>

LnPoint == <<Zero, Dec(4054, 6510, 8108, 1644, -16), Dec(7884, 5736, 364, 2702, -16),
             Dec(1193, 9224, 6847, 2435, -15), Dec(1547, 5625, 871, 6013, -15),
             Dec(1916, 9226, 1218, 2061, -15), Zero>>

\* the reference point nearest (in ratio) to a significand with leading limb m4
LogIndex(m4) ==
  IF m4 < 1225 THEN 1 ELSE IF m4 < 1817 THEN 2 ELSE IF m4 < 2694 THEN 3
  ELSE IF m4 < 3938 THEN 4 ELSE IF m4 < 5653 THEN 5 ELSE IF m4 < 8246 THEN 6
  ELSE 7

\* 1, 1/3, 1/5, ... 1/17
AtanhCoefficient ==
  <<Dec(1000, 0, 0, 0, -15),
    Dec(3333, 3333, 3333, 3333, -16),
    Dec(2000, 0, 0, 0, -16),
    Dec(1428, 5714, 2857, 1429, -16),
    Dec(1111, 1111, 1111, 1111, -16),
    Dec(9090, 9090, 9090, 9091, -17),
    Dec(7692, 3076, 9230, 7692, -17),
    Dec(6666, 6666, 6666, 6667, -17),
    Dec(5882, 3529, 4117, 6471, -17)>>

RECURSIVE AtanhSeries(_, _, _)
\* 1 + z2 (1/3 + z2 (1/5 + ... z2 (1/(2k+1) + z2 h))), the coefficients of
\* atanh(z)/z in z2 = z^2
AtanhSeries(z2, k, h) ==
  IF k < 0 \/ IsNaN(h) THEN h
  ELSE AtanhSeries(z2, k - 1, FAdd(AtanhCoefficient[k + 1], FMul(z2, h)))

\* ln(c) + 2 atanh(z) for the reference point c of index idx
LnNear(idx, z) ==
  IF IsNaN(z) THEN NaN
  ELSE FAdd(LnPoint[idx], FMul(Two, FMul(z, AtanhSeries(FMul(z, z), 8, Zero))))

LnRatio(idx, y, c) == LnNear(idx, FDiv(FSub(y, c), FAdd(y, c)))

\* <<n, l>> with ln(x) = n * ln(10) + l for finite x > 0: x = y * 10^n with
\* y / c in [0.81, 1.23] for a reference point c, and l = ln(c) + 2 atanh(z),
\* z = (y - c)/(y + c), |z| < 0.11, by its series up to z^17
LnIndexed(x, idx) ==
  <<x.e + 15 + (IF idx = 7 THEN 1 ELSE 0),
    LnRatio(idx, Fin(1, x.m, -15), LogPoint[idx])>>

LnParts(x) == LnIndexed(x, LogIndex(x.m[4]))

\* n * ln(10) + l
LnSum(p) == FAdd(FMul(Lit(p[1], 0), LN10), p[2])

\* Math.log
FLn(x) ==
  IF IsNaN(x) THEN NaN
  ELSE IF x.k = "zero" THEN Inf(-1)
  ELSE IF x.s < 0 THEN NaN
  ELSE IF x.k = "inf" THEN x
  ELSE LnSum(LnParts(x))

\* n + l / ln(10)
Log10Sum(p) == FAdd(Lit(p[1], 0), FDiv(p[2], LN10))

\* Math.log10: exact on the powers of ten
FLog10(x) ==
  IF IsNaN(x) THEN NaN
  ELSE IF x.k = "zero" THEN Inf(-1)
  ELSE IF x.s < 0 THEN NaN
  ELSE IF x.k = "inf" THEN x
  ELSE Log10Sum(LnParts(x))

(***************************************************************************)
(* src/lib/sklp/solve.ts: preferred values, forward and inverse equations  *)
(***************************************************************************)
E6_SERIES == <<Lit(10, -1), Lit(15, -1), Lit(22, -1), Lit(33, -1), Lit(47, -1),
               Lit(68, -1)>>

MIN_CAPACITANCE_F == Lit(100, -12)

MAX_CAPACITANCE_F == Lit(10, -6)

MIN_RESISTANCE_OHMS == Lit(100, 0)

MAX_RESISTANCE_OHMS == Lit(10 * 1000 * 1000, 0)

RATIO_TOLERANCE == Lit(1, -6)

DISCRIMINANT_TOLERANCE == Lit(1, -9)

COMPARISON_TOLERANCE == Lit(1, -9)

\* an Error object returned as a value
Error(message) == [tag |-> "error", message |-> message]

\* an Error object thrown: the call completes abruptly and returns nothing
Thrown(message) == [tag |-> "throw", message |-> message]

Null == [tag |-> "null"]

\* the elements of seq, each at its position pos
SortPlaced(seq, pos) ==
  Tup([p \in 1..Len(seq) |-> seq[CHOOSE a \in 1..Len(seq) : pos[a] = p]])

\* Array.prototype.sort((a, b) => a - b) on numbers none of which is NaN:
\* each element goes to the place after those smaller than it and after
\* the equal ones that precede it
SortAscending(seq) ==
  SortPlaced(seq, Tup([a \in 1..Len(seq) |->
               1 + Cardinality({b \in 1..Len(seq) :
                                  FLt(seq[b], seq[a]) \/ (b < a /\ FEq(seq[b], seq[a]))})]))

\* the candidates of the two nested loops in loop order: exponent -12..6,
\* mantissa in series order
E6Candidate(n) ==
  FMul(E6_SERIES[1 + ((n - 1) % 6)], Lit(1, ((n - 1) \div 6) - 12))

\* a loop body that skips only the candidates below the window
E6RoundedBelowOnly(candidate, lo, hi) ==
  IF FLt(candidate, lo) THEN NaN ELSE ToPrecision12(candidate)

\* the body of the inner loop: the value to add, NaN for a candidate skipped
E6Rounded(candidate, lo, hi) ==
  IF FLt(candidate, lo) THEN NaN
  ELSE IF FGt(candidate, hi) THEN NaN
  ELSE ToPrecision12(candidate)

\* values.add(rounded) over the loops: a Set keeps the first of equal values
E6Added(rounded) ==
  Tup([n \in 1..Len(rounded) |->
        [v    |-> rounded[n],
         keep |-> ~IsNaN(rounded[n]) /\ \A k \in 1..(n - 1) : rounded[k] # rounded[n]]])

Kept(c) == c.keep

\* Array.from(values)
E6Values(values) == Tup([n \in 1..Len(values) |-> values[n].v])

E6InRange(lo, hi) ==
  E6Values(SelectSeq(E6Added(Tup([n \in 1..(19 * 6) |->
                                    E6Rounded(E6Candidate(n), lo, hi)])), Kept))

generateE6Capacitors(min, max) ==
  IF ~(IsFinite(min) /\ IsFinite(max) /\ FGt(min, Zero) /\ FGe(max, min))
  THEN Thrown("Invalid capacitor range provided.")
  ELSE [tag    |-> "value",
        values |-> SortAscending(E6InRange(FSub(min, EPSILON), FAdd(max, EPSILON)))]

\* lines 70-74, from the product
FrequencyOf(product) ==
  IF ~IsFinite(product) \/ FLe(product, Zero) THEN NaN
  ELSE FDiv(FDiv(One, FSqrt(product)), FMul(Two, PI))

computeNaturalFrequencyHz(r1, r2, c1, c2) ==
  FrequencyOf(FMul(FMul(FMul(r1, r2), c1), c2))

\* lines 90-93, from the two terms
QualityOf(sqrtTerm, denominator) ==
  IF ~IsFinite(sqrtTerm) \/ FLe(sqrtTerm, Zero)
     \/ ~IsFinite(denominator) \/ FLe(denominator, Zero)
  THEN NaN
  ELSE FDiv(sqrtTerm, denominator)

computeQualityFactor(r1, r2, c1, c2) ==
  QualityOf(FSqrt(FMul(FMul(FMul(r1, r2), c1), c2)), FMul(c2, FAdd(r1, r2)))

UnrealizableQ ==
  "Selected capacitors cannot realize the requested Q for unity-gain Sallen-Key."

ImaginaryResistors ==
  "Selected capacitors produce imaginary resistors for the requested cutoff."

NoPositiveResistors ==
  "Unable to compute positive resistor values for the provided parameters."

\* the two roots returned as they are
ResistorPairUnchecked(r1, r2) == [tag |-> "pair", r1 |-> r1, r2 |-> r2]

\* lines 135-139
ResistorPair(r1, r2) ==
  IF ~IsFinite(r1) \/ ~IsFinite(r2) \/ FLe(r1, Zero) \/ FLe(r2, Zero)
  THEN Error(NoPositiveResistors)
  ELSE IF FLe(r1, r2) THEN [tag |-> "pair", r1 |-> r1, r2 |-> r2]
  ELSE [tag |-> "pair", r1 |-> r2, r2 |-> r1]

\* lines 132-133
ResistorRoots(sum, sqrtTerm) ==
  ResistorPair(FDiv(FSub(sum, sqrtTerm), Two), FDiv(FAdd(sum, sqrtTerm), Two))

\* lines 127-131
ResistorsFromDiscriminant(sum, discriminant) ==
  IF FLt(discriminant, FNeg(DISCRIMINANT_TOLERANCE))
  THEN Error(ImaginaryResistors)
  ELSE ResistorRoots(sum, FSqrt(FMax(Zero, discriminant)))

\* line 126
ResistorsFromVieta(product, sum) ==
  ResistorsFromDiscriminant(sum, FSub(FMul(sum, sum), FMul(Four, product)))

\* a product with the angular frequency once
VietaProductLinear(omega0, c1, c2) == FDiv(One, FMul(FMul(omega0, c1), c2))

\* lines 123-124: the product and the sum of the two resistors
VietaProduct(omega0, c1, c2) == FDiv(One, FMul(FMul(FMul(omega0, omega0), c1), c2))

VietaSum(omega0, Q, c2) == FDiv(One, FMul(FMul(omega0, Q), c2))

ResistorsFromOmega(omega0, Q, c1, c2) ==
  ResistorsFromVieta(VietaProduct(omega0, c1, c2), VietaSum(omega0, Q, c2))

\* a required minimum of Q c2
RequiredMinimumLinear(Q, c2) == FMul(Q, c2)

\* line 117
RequiredMinimum(Q, c2) == FMul(FMul(FMul(Four, Q), Q), c2)

solveResistorsForCapacitors(fcHz, Q, c1, c2) ==
  IF ~IsFinite(fcHz) \/ FLe(fcHz, Zero)
  THEN Error("Cutoff frequency must be greater than zero.")
  ELSE IF ~IsFinite(Q) \/ FLe(Q, Zero)
  THEN Error("Quality factor must be greater than zero.")
  ELSE IF ~IsFinite(c1) \/ FLe(c1, Zero) \/ ~IsFinite(c2) \/ FLe(c2, Zero)
  THEN Error("Capacitance values must be positive.")
  ELSE IF FLt(FAdd(c1, EPSILON), RequiredMinimum(Q, c2)) THEN Error(UnrealizableQ)
  ELSE ResistorsFromOmega(FMul(FMul(Two, PI), fcHz), Q, c1, c2)

\* a key of one of the tolerant comparators: -1, 1, or 0 when the two values
\* are within COMPARISON_TOLERANCE of each other (or one is NaN)
CompareKey(x, y) ==
  IF FLt(x, FSub(y, COMPARISON_TOLERANCE)) THEN -1
  ELSE IF FGt(x, FAdd(y, COMPARISON_TOLERANCE)) THEN 1
  ELSE 0

RECURSIVE CompareKeys(_, _, _)
\* the keys ka of a and kb of b compared in order from the n-th on: the first
\* key that decides, 0 when none does
FirstDecided(key, ka, kb, n) == IF key # 0 THEN key ELSE CompareKeys(ka, kb, n + 1)

CompareKeys(ka, kb, n) ==
  IF n > Len(ka) THEN 0 ELSE FirstDecided(CompareKey(ka[n], kb[n]), ka, kb, n)

\* a seed term that ignores the seed
BaseDeltaUnseeded(c2, cBase) == Zero

\* the seed term of the two tolerant rankings: |log10(c2 / cBase)| for a
\* usable seed, 0 otherwise
BaseDelta(c2, cBase) ==
  IF Truthy(cBase) /\ IsFinite(cBase) /\ FGt(cBase, Zero)
  THEN FAbs(FLog10(FDiv(c2, cBase)))
  ELSE Zero

evaluateCandidate(c1, c2, r1, r2, cBase) ==
  [tag |-> "candidate", c1 |-> c1, c2 |-> c2, r1 |-> r1, r2 |-> r2,
   spread |-> FDiv(FMax(r1, r2), FMin(r1, r2)), maxR |-> FMax(r1, r2),
   capRatio |-> FDiv(FMax(c1, c2), FMin(c1, c2)),
   baseDelta |-> BaseDelta(c2, cBase)]

\* the keys in the order the comparator tests them
CandidateKeys(a) == <<a.spread, a.maxR, a.capRatio, a.baseDelta, a.c2, a.c1>>

compareCandidates(a, b) == CompareKeys(CandidateKeys(a), CandidateKeys(b), 1)

\* every solved pair becomes a candidate
Unbounded(c1, c2, cBase, resistorPair) ==
  IF resistorPair.tag = "error" THEN Null
  ELSE evaluateCandidate(c1, c2, resistorPair.r1, resistorPair.r2, cBase)

\* lines 257-267: the pair within the resistor bounds becomes a candidate
Bounded(c1, c2, cBase, resistorPair) ==
  IF resistorPair.tag = "error" THEN Null
  ELSE IF FLt(resistorPair.r1, MIN_RESISTANCE_OHMS)
          \/ FLt(resistorPair.r2, MIN_RESISTANCE_OHMS)
          \/ FGt(resistorPair.r1, MAX_RESISTANCE_OHMS)
          \/ FGt(resistorPair.r2, MAX_RESISTANCE_OHMS)
  THEN Null
  ELSE evaluateCandidate(c1, c2, resistorPair.r1, resistorPair.r2, cBase)

\* a loop body without the ratio filter
TryPairAnyRatio(fcHz, Q, cBase, ratio, c1, c2) ==
  Bounded(c1, c2, cBase, solveResistorsForCapacitors(fcHz, Q, c1, c2))

\* a loop body that skips every pair whose c2 is not the seed
TryPairAtSeed(fcHz, Q, cBase, ratio, c1, c2) ==
  IF Truthy(cBase) /\ c2 # cBase THEN Null
  ELSE IF Truthy(ratio) /\ FGt(ratio, Zero)
          /\ FGt(FDiv(FAbs(FSub(FDiv(c1, c2), ratio)), ratio), RATIO_TOLERANCE)
  THEN Null
  ELSE Bounded(c1, c2, cBase, solveResistorsForCapacitors(fcHz, Q, c1, c2))

\* the body of the inner loop of solveSallenKeyLP up to the candidate: Null
\* when the pair is skipped
TryPair(fcHz, Q, cBase, ratio, c1, c2) ==
  IF Truthy(ratio) /\ FGt(ratio, Zero)
     /\ FGt(FDiv(FAbs(FSub(FDiv(c1, c2), ratio)), ratio), RATIO_TOLERANCE)
  THEN Null
  ELSE Bounded(c1, c2, cBase, solveResistorsForCapacitors(fcHz, Q, c1, c2))

\* the latest candidate kept whatever the comparison
BetterLatest(candidate, best, less) ==
  IF candidate.tag = "null" THEN best ELSE candidate

\* the best so far after a candidate (or none) has been offered to it:
\* if (!best || compare(candidate, best) < 0) best = candidate
Better(candidate, best, less) ==
  IF candidate.tag = "null" THEN best
  ELSE IF best.tag = "null" \/ less THEN candidate
  ELSE best

(***************************************************************************)
(* The equal-resistor capacitor search (solveCapacitorsForTarget)          *)
(***************************************************************************)
DEFAULT_EPSILON_OHMS == Lit(20, 0)

\* effectiveR without the end stop of line 29
effectiveRNoEndStop(alpha, rPotMax, rSeriesTop, rSeriesBottom, eps) ==
  IF ~IsFinite(alpha) THEN NaN
  ELSE FAdd(FAdd(FMax(rSeriesTop, Zero),
                 FMul(FMin(FMax(alpha, Zero), One), FMax(rPotMax, Zero))),
            FMax(rSeriesBottom, Zero))

effectiveR(alpha, rPotMax, rSeriesTop, rSeriesBottom, eps) ==
  IF ~IsFinite(alpha) THEN NaN
  ELSE FAdd(FAdd(FMax(rSeriesTop, Zero),
                 FMax(FMul(FMin(FMax(alpha, Zero), One), FMax(rPotMax, Zero)),
                      FMax(eps, Zero))),
            FMax(rSeriesBottom, Zero))

fcFromR(rOhms, c1Farads, c2Farads) ==
  IF FLe(rOhms, Zero) \/ FLe(c1Farads, Zero) \/ FLe(c2Farads, Zero) THEN NaN
  ELSE FDiv(One, FMul(FMul(FMul(Two, PI), rOhms), FSqrt(FMul(c1Farads, c2Farads))))

DEFAULT_SWEEP_ALPHAS == <<Zero, Lit(25, -2), Half, Lit(75, -2), One>>

\* one point of a sweep
SweepPoint(alpha, R, fc) == [alpha |-> alpha, R |-> R, fc |-> fc]

\* lines 55-57, the point of one alpha
SweptPoint(alpha, R, c1Farads, c2Farads) ==
  SweepPoint(alpha, R, fcFromR(R, c1Farads, c2Farads))

sweepPot(rPotMax, c1Farads, c2Farads, rSeriesTop, rSeriesBottom, eps) ==
  [k \in 1..Len(DEFAULT_SWEEP_ALPHAS) |->
     SweptPoint(DEFAULT_SWEEP_ALPHAS[k],
                effectiveR(DEFAULT_SWEEP_ALPHAS[k], rPotMax, rSeriesTop, rSeriesBottom, eps),
                c1Farads, c2Farads)]

\* lines 81-94, from the cutoff fc of the pair
CapacitorCandidate(c1, c2, targetFcHz, cBase, fc) ==
  IF ~IsFinite(fc) \/ FLe(fc, Zero) THEN Null
  ELSE [tag |-> "candidate", c1 |-> c1, c2 |-> c2, fc |-> fc,
        fcDelta |-> FAbs(FLog10(FDiv(fc, targetFcHz))),
        baseDelta |-> BaseDelta(c2, cBase),
        ratioDelta |-> FAbs(FLog10(IF FGe(c1, c2) THEN FDiv(c1, c2)
                                   ELSE FDiv(c2, c1)))]

evaluateCapacitorCandidate(c1, c2, targetFcHz, rEffective, cBase) ==
  CapacitorCandidate(c1, c2, targetFcHz, cBase, fcFromR(rEffective, c1, c2))

\* the keys with the distance to the seed ahead of the accuracy
CapacitorKeysSeedFirst(a) == <<a.baseDelta, a.fcDelta, a.ratioDelta, a.c2, a.c1>>

\* the keys in the order the comparator tests them
CapacitorKeys(a) == <<a.fcDelta, a.baseDelta, a.ratioDelta, a.c2, a.c1>>

compareCapacitorCandidates(a, b) == CompareKeys(CapacitorKeys(a), CapacitorKeys(b), 1)

(***************************************************************************)
(* src/lib/sklp_equal_pot/solve.ts: the expanding-decade search            *)
(***************************************************************************)
DEFAULT_RELATIVE_TOLERANCE == Lit(2, -2)

DEFAULT_MIN_CAPACITANCE == Lit(10, -12)

DEFAULT_MAX_CAPACITANCE == Lit(10, -6)

TARGET_Q == SQRT1_2

MIN_DECADE == -11

MAX_DECADE == -5

InWindow(value) ==
  ~(FLt(value, DEFAULT_MIN_CAPACITANCE) \/ FGt(value, DEFAULT_MAX_CAPACITANCE))

NonEmpty(entry) == Len(entry.values) > 0

\* the Map as its entries [decade, values] in insertion order
buildCapacitorValues ==
  SelectSeq(Tup([n \in 1..(MAX_DECADE - MIN_DECADE + 1) |->
      [decade |-> MIN_DECADE + n - 1,
       values |-> SelectSeq(Tup([k \in 1..6 |->
                      FMul(E6_SERIES[k], Lit(1, MIN_DECADE + n - 1))]), InWindow)]]),
    NonEmpty)

\* valuesByDecade.get(decade), for a decade that is a key
MapGet(valuesByDecade, decade) ==
  valuesByDecade[CHOOSE n \in 1..Len(valuesByDecade) :
                   valuesByDecade[n].decade = decade].values

compareCandidateScores(a, b) ==
  IF ~FEq(a.logError, b.logError) THEN FSub(a.logError, b.logError)
  ELSE IF ~FEq(a.qPenalty, b.qPenalty) THEN FSub(a.qPenalty, b.qPenalty)
  ELSE IF ~FEq(a.totalCapacitance, b.totalCapacitance)
  THEN FSub(a.totalCapacitance, b.totalCapacitance)
  ELSE IF ~FEq(a.spread, b.spread) THEN FSub(a.spread, b.spread)
  ELSE Zero

fcFromRRC(rOhms, c1Farads, c2Farads) ==
  IF FLe(rOhms, Zero) \/ FLe(c1Farads, Zero) \/ FLe(c2Farads, Zero) THEN NaN
  ELSE FDiv(One, FMul(FMul(FMul(Two, PI), rOhms), FSqrt(FMul(c1Farads, c2Farads))))

\* lines 235-238, the point of one alpha
SweptPointRRC(alpha, clampedPotMax, epsilon, c1Farads, c2Farads) ==
  LET clampedAlpha == FMin(FMax(alpha, Zero), One)
      resistance == FMax(FMul(clampedAlpha, clampedPotMax), epsilon)
  IN  [alpha |-> clampedAlpha, R |-> resistance,
       fc |-> fcFromRRC(resistance, c1Farads, c2Farads)]

\* sweepPot of the potentiometer search (lines 225-240)
sweepPotRRC(rPotMax, c1Farads, c2Farads, eps) ==
  [k \in 1..Len(DEFAULT_SWEEP_ALPHAS) |->
     SweptPointRRC(DEFAULT_SWEEP_ALPHAS[k],
                   FMax(rPotMax, Zero), FMax(eps, Zero), c1Farads, c2Farads)]

qFromCaps(c1Farads, c2Farads) ==
  IF FLe(c1Farads, Zero) \/ FLe(c2Farads, Zero) THEN NaN
  ELSE FMul(Half, FSqrt(FDiv(c1Farads, c2Farads)))

\* lines 81-101, from f50 and q of the pair
ScoredCandidate(c1, c2, fTarget, f50, q) ==
  IF ~IsFinite(f50) \/ FLe(f50, Zero) THEN Null
  ELSE IF ~IsFinite(fTarget) \/ FLe(fTarget, Zero) THEN Null
  ELSE [tag |-> "candidate", c1 |-> c1, c2 |-> c2, f50 |-> f50, q |-> q,
        relErr |-> FDiv(FAbs(FSub(f50, fTarget)), fTarget),
        logError |-> FAbs(FLn(FDiv(f50, fTarget))),
        qPenalty |-> IF IsFinite(q) THEN FAbs(FSub(q, TARGET_Q)) ELSE Inf(1),
        totalCapacitance |-> FAdd(c1, c2),
        spread |-> FDiv(FMax(c1, c2), FMin(c1, c2))]

createCandidate(c1, c2, fTarget, r50) ==
  ScoredCandidate(c1, c2, fTarget, fcFromRRC(r50, c1, c2), qFromCaps(c1, c2))

\* the keys of the Map
DecadesOf(valuesByDecade) ==
  Tup([k \in 1..Len(valuesByDecade) |-> valuesByDecade[k].decade])

\* |decade - baseDecade|
DecadeDistance(d, baseDecade) ==
  IF d >= baseDecade THEN d - baseDecade ELSE baseDecade - d

\* the comparator of the sort by distance from the seed's decade, then ascending
DecadeBefore(x, y, baseDecade) ==
  DecadeDistance(x, baseDecade) < DecadeDistance(y, baseDecade)
  \/ (DecadeDistance(x, baseDecade) = DecadeDistance(y, baseDecade) /\ x < y)

\* the distinct decades sorted by the seed's decade
SortByDistance(decades, baseDecade) ==
  Tup([p \in 1..Len(decades) |->
        CHOOSE d \in {decades[k] : k \in 1..Len(decades)} :
          Cardinality({k \in 1..Len(decades) :
                         DecadeBefore(decades[k], d, baseDecade)}) = p - 1])

\* the distinct decades in ascending order
SortDecades(decades) ==
  Tup([p \in 1..Len(decades) |->
        CHOOSE d \in {decades[k] : k \in 1..Len(decades)} :
          Cardinality({k \in 1..Len(decades) : decades[k] < d}) = p - 1])

\* the keys in ascending order, or by distance from the decade of a usable
\* seed and then ascending
sortedDecades(valuesByDecade, cBase) ==
  IF cBase.k = "undefined" \/ ~IsFinite(cBase) \/ FLe(cBase, Zero)
  THEN SortDecades(DecadesOf(valuesByDecade))
  ELSE SortByDistance(SortDecades(DecadesOf(valuesByDecade)),
                      FloorInt(FLog10(cBase)))

(***************************************************************************)
(* src/lib/series/nearestE6Cap.ts: the neighbours of a value in a series   *)
(***************************************************************************)
\* the two-digit series the callers pass (lib/series/e12, lib/series/e24)
E12_SERIES ==
  [k \in 1..12 |-> Lit(<<10, 12, 15, 18, 22, 27, 33, 39, 47, 56, 68, 82>>[k], 0)]

E24_SERIES ==
  [k \in 1..24 |->
     Lit(<<10, 11, 12, 13, 15, 16, 18, 20, 22, 24, 27, 30,
           33, 36, 39, 43, 47, 51, 56, 62, 68, 75, 82, 91>>[k], 0)]

\* 10 ** exponent
TenTo(exponent) == Lit(1, exponent)

\* line 94
NEIGHBOR_TOLERANCE == Lit(1, -9)

\* Math.abs(value - normalizedTarget) < tolerance
WithinTolerance(value, normalizedTarget) ==
  FLt(FAbs(FSub(value, normalizedTarget)), NEIGHBOR_TOLERANCE)

\* lines 96-100: the last index whose value is at or below the target, or -1
LowerIndex(series, normalizedTarget) ==
  LET at == {index \in 0..(Len(series) - 1) :
               \/ FLe(series[index + 1], normalizedTarget)
               \/ WithinTolerance(series[index + 1], normalizedTarget)}
  IN  IF at = {} THEN -1 ELSE CHOOSE index \in at : \A other \in at : other <= index

\* lines 101-103: the first index whose value is at or above the target, or -1
UpperIndex(series, normalizedTarget) ==
  LET at == {index \in 0..(Len(series) - 1) :
               \/ FGe(series[index + 1], normalizedTarget)
               \/ WithinTolerance(series[index + 1], normalizedTarget)}
  IN  IF at = {} THEN -1 ELSE CHOOSE index \in at : \A other \in at : other >= index

\* the indexes of the neighbours without the step past a matched value
NeighborIndexesUnshifted(series, normalizedTarget, lowerIndex, upperIndex) ==
  [below |-> lowerIndex, above |-> upperIndex]

\* lines 106-112: belowIndex and aboveIndex
NeighborIndexes(series, normalizedTarget, lowerIndex, upperIndex) ==
  IF lowerIndex >= 0 /\ WithinTolerance(normalizedTarget, series[lowerIndex + 1])
  THEN [below |-> lowerIndex - 1, above |-> lowerIndex + 1]
  ELSE [below |-> lowerIndex, above |-> upperIndex]

\* lines 114-131: the neighbours at the indexes, or those of the next decades
NeighborsAt(series, exponent, indexes) ==
  [below |-> IF indexes.below >= 0
             THEN FMul(series[indexes.below + 1], TenTo(exponent))
             ELSE FMul(series[Len(series)], TenTo(exponent - 1)),
   above |-> IF indexes.above # -1 /\ indexes.above <= Len(series) - 1
             THEN FMul(series[indexes.above + 1], TenTo(exponent))
             ELSE FMul(series[1], TenTo(exponent + 1))]

\* lines 87-131, with the exponent of the target's decade
NeighborsInDecade(target, series, exponent) ==
  LET normalizedTarget == FDiv(target, TenTo(exponent))
  IN  NeighborsAt(series, exponent,
                  NeighborIndexes(series, normalizedTarget,
                                  LowerIndex(series, normalizedTarget),
                                  UpperIndex(series, normalizedTarget)))

nearestNeighbors(target, normalizedSeries) ==
  IF ~IsFinite(target) \/ FLe(target, Zero) \/ Len(normalizedSeries) = 0
  THEN [below |-> Null, above |-> Null]
  ELSE NeighborsInDecade(target, normalizedSeries, FloorInt(FLog10(target)) - 1)

(***************************************************************************)
(* The calls.  One call runs at a time: fn and args are the function and   *)
(* its arguments, pc its position ("idle" before the call, "search" inside *)
(* the loops, "return" after them, "done" once it has returned), result    *)
(* what it returned.  The nested loops of a search take one step per pair, *)
(* with the loop variables as state; nothing else runs during a search.    *)
(* calls counts the calls of a behaviour and first keeps the first of      *)
(* them, for the properties that compare two calls.                        *)
(***************************************************************************)
VARIABLES fn, args, pc, result,
          capacitors,            \* const capacitors (the two E6 searches)
          rEffective,            \* const rEffective; const r50 (pot search)
          decadeOrder, count,    \* pot search: decade order and pass number
          di, dj,                \* pot search: positions in allowedDecades
          i, j,                  \* positions of c1 and c2 in their lists
          best,                  \* let best; the two bests of the pot search
          calls, first,          \* the caller: number of the call, the first call
          caller                 \* the caller: "single", "seeded" or "mixed"

vars == <<fn, args, pc, result, capacitors, rEffective, decadeOrder, count,
          di, dj, i, j, best, calls, first, caller>>

\* the variables of the loops
locals == <<capacitors, rEffective, decadeOrder, count, di, dj, i, j, best>>

\* no call made yet
Idle ==
  /\ fn = "none" /\ args = Null /\ pc = "idle" /\ result = Null
  /\ capacitors = <<>> /\ rEffective = NaN /\ decadeOrder = <<>> /\ count = 0
  /\ di = 0 /\ dj = 0 /\ i = 0 /\ j = 0 /\ best = Null
  /\ calls = 1 /\ first = Null

Init == Idle /\ caller \in {"single", "seeded", "mixed", "survey"}

\* the caller of a single call
InitSingle == Idle /\ caller = "single"

\* the caller that calls a solver without a seed and then with one
InitSeeded == Idle /\ caller = "seeded"

\* the caller that mixes the solvers
InitMixed == Idle /\ caller = "mixed"

\* the caller that surveys the outcomes of the solvers
InitSurvey == Idle /\ caller = "survey"

\* the most calls in a behaviour
MaxCalls == 3

\* the call returns (or throws) r at once, before any loop
Returned(r) == pc' = "done" /\ result' = r /\ UNCHANGED locals

\* the missing argument replaced by its default
Default(x, d) == IF x.k = "undefined" THEN d ELSE x

(***************************************************************************)
(* The calls made: the arguments of each function                          *)
(***************************************************************************)
SklpArgs(fcHz, Q, cBase, ratio) ==
  [fcHz |-> fcHz, Q |-> Q, cBase |-> cBase, ratio |-> ratio]

\* a common target, alone and restricted to the ratios 10 and 1
SklpCommon == SklpArgs(Lit(1000, 0), Lit(707, -3), Undefined, Undefined)

SklpRatio10 == SklpArgs(Lit(1000, 0), Lit(707, -3), Undefined, Lit(10, 0))

SklpRatio1 == SklpArgs(Lit(1000, 0), Lit(707, -3), Undefined, One)

\* the target at the edge of the realizable, Q = 0.5000000000000001
SklpEdge == SklpArgs(Lit(1000, 0), Dec(5000, 0, 0, 1, -16), Undefined, Undefined)

\* a target out of the reach of the resistor bounds
SklpOutOfReach == SklpArgs(Lit(1, 9), Lit(707, -3), Undefined, Undefined)

\* usable and unusable seeds
SklpSeeded ==
  {[a EXCEPT !.cBase = c] : a \in {SklpCommon, SklpRatio10},
                            c \in {Lit(1, -8), Lit(-1, -8)}}

\* a ratio above every ratio of two capacitors
SklpRatioInfinite == SklpArgs(Lit(1000, 0), Lit(707, -3), Undefined, Inf(1))

\* a Q just below 5, where the pairs of ratio 100 have nearly equal resistors
SklpNearlyEqualResistors ==
  SklpArgs(Lit(5612, 0), Dec(4999, 9999, 9999, 9995, -15), Undefined, Undefined)

SklpSearched ==
  {SklpCommon, SklpRatio10, SklpRatio1, SklpRatioInfinite, SklpEdge, SklpOutOfReach,
   SklpNearlyEqualResistors}
  \cup SklpSeeded

NotPositive == {Zero, Lit(-1, 0), NaN, Inf(1)}

SklpRejected ==
  {SklpArgs(f, Lit(707, -3), c, Undefined) : f \in NotPositive, c \in {Undefined, Lit(1, -8)}}
  \cup {SklpArgs(Lit(1000, 0), q, c, Undefined) : q \in NotPositive, c \in {Undefined, Lit(1, -8)}}

SklpInputs == SklpSearched \cup SklpRejected

EqualArgs(targetFcHz, rPotMax, cBase, rSeriesTop, rSeriesBottom, eps) ==
  [targetFcHz |-> targetFcHz, rPotMax |-> rPotMax, cBase |-> cBase,
   rSeriesTop |-> rSeriesTop, rSeriesBottom |-> rSeriesBottom, eps |-> eps]

\* a call with the pot alone
EqualPot(targetFcHz, rPotMax, cBase) ==
  EqualArgs(targetFcHz, rPotMax, cBase, Undefined, Undefined, Undefined)

EqualCommon == EqualPot(Lit(1000, 0), Lit(20000, 0), Undefined)

\* 220e-9
EqualSeeded == EqualPot(Lit(1000, 0), Lit(20000, 0), Lit(220, -9))

\* a pot so large that 2 pi R overflows: every cutoff is 0
EqualOutOfReach ==
  EqualArgs(Lit(1000, 0), Lit(17, 307), Undefined, Lit(1000, 0), Undefined, Zero)

\* a target 5e-10 decades nearer to the cutoff of 22 nF, 10 nF than to the
\* cutoff of 47 nF, 4.7 nF, with the seed 4.7 nF
EqualNearTie == EqualPot(Dec(1071, 9277, 9606, 0, -12), Lit(20000, 0), Lit(47, -10))

EqualSearched == {EqualCommon, EqualSeeded, EqualNearTie, EqualOutOfReach}

EqualRejected ==
  {EqualPot(f, Lit(20000, 0), c) : f \in NotPositive, c \in {Undefined, Lit(220, -9)}}
  \cup {EqualPot(Lit(1000, 0), r, c) : r \in NotPositive, c \in {Undefined, Lit(220, -9)}}
  \cup {EqualPot(Lit(1000, 0), Lit(20000, 0), c) : c \in NotPositive \cup {Inf(-1)}}
  \cup {EqualArgs(Lit(1000, 0), Lit(20000, 0), Undefined, t, b, Undefined) :
          t \in {Lit(-1, 0), NaN}, b \in {Lit(-1, 0), Undefined}}

EqualInputs == EqualSearched \cup EqualRejected

PotArgs(fTarget, rPotMax, cBase, tolerance) ==
  [fTarget |-> fTarget, rPotMax |-> rPotMax, cBase |-> cBase, tolerance |-> tolerance]

PotCommon == PotArgs(Lit(1000, 0), Lit(46800, 0), Undefined, Undefined)

\* a seed two decades above the pair the unseeded search returns
PotSeeded == PotArgs(Lit(1000, 0), Lit(46800, 0), Lit(1, -7), Undefined)

\* no pair of the window is within 2 % of 5 MHz
PotFallback == PotArgs(Lit(5, 6), Lit(10000, 0), Undefined, Undefined)

\* a pot so large that 2 pi R overflows: the cutoff of every pair is 0
PotOutOfReach == PotArgs(Lit(1000, 0), Lit(17, 307), Undefined, Undefined)

\* a tolerance that the first decade already meets, and a seed the sort ignores
PotLoose == PotArgs(Lit(1000, 0), Lit(46800, 0), Lit(-1, -8), Lit(1000, 0))

\* a tolerance of 10 % that the pair below the target meets and the pair above
\* it, which is nearer on the logarithmic scale, does not
PotStraddled == PotArgs(Lit(1440300, 0), Lit(20000, 0), Undefined, Lit(1, -1))

PotSearched ==
  {PotCommon, PotSeeded, PotFallback, PotOutOfReach, PotLoose, PotStraddled}

PotRejected ==
  {PotArgs(f, Lit(46800, 0), c, Undefined) : f \in NotPositive, c \in {Undefined, Lit(1, -7)}}
  \cup {PotArgs(Lit(1000, 0), r, c, Undefined) : r \in NotPositive, c \in {Undefined, Lit(1, -7)}}

PotInputs == PotSearched \cup PotRejected

ResistorArgs(fcHz, Q, c1, c2) == [fcHz |-> fcHz, Q |-> Q, c1 |-> c1, c2 |-> c2]

\* targets and capacitors, valid and invalid: Q from 1e-9 to 0.707, at 0.5 and
\* just above it
ResistorInputs ==
  {ResistorArgs(f, q, c1, c2) :
     f  \in {Lit(1000, 0), Lit(1, 6), Zero, NaN},
     q  \in {Lit(707, -3), Half, Dec(5000, 0, 0, 2, -16), Lit(5000005, -7),
             Lit(1, -6), Lit(1, -9), Lit(-1, 0), Inf(1)},
     c1 \in {Lit(1, -10), Lit(1, -9), Lit(1, -8), Lit(1, -6), Zero, Inf(1)},
     c2 \in {Lit(1, -10), Lit(1, -9), Lit(1, -6), Lit(-1, -9), NaN}}

\* the calls of the survey: for each search a call that finds a pair, one that
\* finds none and the rejected calls, and the calls of the resistor solver
Surveyed ==
  {[fn |-> "solveSallenKeyLP", args |-> a] :
     a \in {SklpRatio10, SklpRatio1} \cup SklpRejected}
  \cup {[fn |-> "solveCapacitorsForTarget", args |-> a] :
          a \in {EqualCommon, EqualOutOfReach} \cup EqualRejected}
  \cup {[fn |-> "pickE6CapsForF50", args |-> a] :
          a \in {PotCommon, PotOutOfReach} \cup PotRejected}
  \cup {[fn |-> "solveResistorsForCapacitors", args |-> a] : a \in ResistorInputs}

\* the calls of the caller that adds a seed: a call without a seed, then the
\* same call with one of the seeds
Unseeded ==
  {[fn |-> "solveSallenKeyLP", args |-> SklpRatio10],
   [fn |-> "solveSallenKeyLP", args |-> SklpOutOfReach],
   [fn |-> "solveCapacitorsForTarget", args |-> EqualCommon],
   [fn |-> "solveCapacitorsForTarget", args |-> EqualOutOfReach],
   [fn |-> "pickE6CapsForF50", args |-> PotCommon]}

\* 220e-9 and 1e-9 for the equal-resistor search, 5e-8 for the fc/Q search,
\* 1e-7 for the pot search
Seeds(f) ==
  IF f = "solveCapacitorsForTarget" THEN {Lit(220, -9), Lit(1, -9)}
  ELSE IF f = "solveSallenKeyLP" THEN {Lit(5, -8)}
  ELSE {Lit(1, -7)}

\* the seeded calls of f
Seeded(f) ==
  {[u.args EXCEPT !.cBase = c] : u \in {v \in Unseeded : v.fn = f}, c \in Seeds(f)}

\* the calls of the caller that mixes the solvers: a first call, any one
\* other call, and the first call again
MixedFirst ==
  {[fn |-> "solveSallenKeyLP", args |-> SklpRatio10],
   [fn |-> "solveCapacitorsForTarget", args |-> EqualCommon],
   [fn |-> "pickE6CapsForF50", args |-> PotCommon]}

MixedOthers ==
  {[fn |-> "solveSallenKeyLP", args |-> SklpEdge],
   [fn |-> "solveCapacitorsForTarget", args |-> EqualOutOfReach],
   [fn |-> "pickE6CapsForF50", args |-> PotSeeded]}

\* the call f(a) may be made now: by the caller of a single call when a is one
\* of inputs; by the survey when it is one of Surveyed; by the caller that adds
\* a seed when it is one of Unseeded, and then the same call with a seed; by
\* the caller that mixes the solvers when it is one of MixedFirst, then one of
\* MixedOthers, then the first again
Callable(f, a, inputs) ==
  /\ pc = "idle"
  /\ IF caller = "single" THEN a \in inputs
     ELSE IF caller = "survey" THEN [fn |-> f, args |-> a] \in Surveyed
     ELSE IF caller = "seeded"
     THEN (IF calls = 1 THEN [fn |-> f, args |-> a] \in Unseeded
           ELSE first.fn = f /\ a \in {[first.args EXCEPT !.cBase = c] : c \in Seeds(f)})
     ELSE IF calls = 1 THEN [fn |-> f, args |-> a] \in MixedFirst
     ELSE IF calls = 2 THEN [fn |-> f, args |-> a] \in MixedOthers
     ELSE first.fn = f /\ a = first.args
  /\ fn' = f /\ args' = a /\ UNCHANGED <<calls, first, caller>>

(***************************************************************************)
(* solveSallenKeyLP                                                        *)
(***************************************************************************)
NoFeasiblePair == "No feasible capacitor pair found for the requested cutoff and Q."

\* the start of the loops with let best left as the previous call found it
SearchStale(generated) ==
  IF generated.tag = "throw" THEN Returned(generated)
  ELSE /\ capacitors' = generated.values
       /\ pc' = IF Len(generated.values) = 0 THEN "return" ELSE "search"
       /\ i' = 1 /\ j' = 1 /\ result' = Null
       /\ best' = IF fn = "solveSallenKeyLP" THEN best ELSE Null
       /\ UNCHANGED <<rEffective, decadeOrder, count, di, dj>>

\* lines 240-241: the start of the loops over the capacitors
Search(generated) ==
  IF generated.tag = "throw" THEN Returned(generated)
  ELSE /\ capacitors' = generated.values
       /\ pc' = IF Len(generated.values) = 0 THEN "return" ELSE "search"
       /\ i' = 1 /\ j' = 1 /\ best' = Null /\ result' = Null
       /\ UNCHANGED <<rEffective, decadeOrder, count, di, dj>>

\* a call that searches whatever its arguments
SolveSallenKeyLP_CallUnchecked ==
  \E a \in SklpInputs \cup Seeded("solveSallenKeyLP") :
    /\ Callable("solveSallenKeyLP", a, SklpInputs)
    /\ Search(generateE6Capacitors(MIN_CAPACITANCE_F, MAX_CAPACITANCE_F))

\* lines 232-241: the checks of the arguments and the start of the search
SolveSallenKeyLP_Call ==
  \E a \in SklpInputs \cup Seeded("solveSallenKeyLP") :
    /\ Callable("solveSallenKeyLP", a, SklpInputs)
    /\ IF ~IsFinite(a.fcHz) \/ FLe(a.fcHz, Zero)
       THEN Returned(Error("Cutoff frequency must be greater than zero."))
       ELSE IF ~IsFinite(a.Q) \/ FLe(a.Q, Zero)
       THEN Returned(Error("Quality factor must be greater than zero."))
       ELSE Search(generateE6Capacitors(MIN_CAPACITANCE_F, MAX_CAPACITANCE_F))

\* the two loops over capacitors advance by one pair
NextPair ==
  IF j < Len(capacitors) THEN i' = i /\ j' = j + 1 /\ pc' = "search"
  ELSE IF i < Len(capacitors) THEN i' = i + 1 /\ j' = 1 /\ pc' = "search"
  ELSE i' = i + 1 /\ j' = 1 /\ pc' = "return"

\* lines 268-270
Offered(candidate, incumbent) ==
  Better(candidate, incumbent, compareCandidates(candidate, incumbent) < 0)

\* lines 243-272: one pair of the loops
SolveSallenKeyLP_Step ==
  /\ fn = "solveSallenKeyLP" /\ pc = "search"
  /\ best' = Offered(TryPair(args.fcHz, args.Q, args.cBase, args.ratio,
                             capacitors[i], capacitors[j]), best)
  /\ NextPair
  /\ UNCHANGED <<fn, args, result, capacitors, rEffective, decadeOrder, count,
                 di, dj, calls, first, caller>>

\* lines 278-288
SklpResult(chosen) ==
  [tag |-> "result", c1 |-> chosen.c1, c2 |-> chosen.c2,
   r1 |-> chosen.r1, r2 |-> chosen.r2,
   fc |-> computeNaturalFrequencyHz(chosen.r1, chosen.r2, chosen.c1, chosen.c2),
   Q  |-> computeQualityFactor(chosen.r1, chosen.r2, chosen.c1, chosen.c2)]

\* lines 274-288
SolveSallenKeyLP_Return ==
  /\ fn = "solveSallenKeyLP" /\ pc = "return"
  /\ result' = IF best.tag = "null" THEN Error(NoFeasiblePair) ELSE SklpResult(best)
  /\ pc' = "done"
  /\ UNCHANGED <<fn, args, calls, first, caller>> /\ UNCHANGED locals

(***************************************************************************)
(* solveCapacitorsForTarget                                                *)
(***************************************************************************)
NoCombination == "No capacitor combination from E6 satisfies the request."

\* lines 173-176, then the start of the loops
EqualSearch(r) ==
  IF ~IsFinite(r) \/ FLe(r, Zero)
  THEN Returned(Error("Unable to determine effective resistance at 50%."))
  ELSE /\ rEffective' = r
       /\ capacitors' = generateE6Capacitors(MIN_CAPACITANCE_F, MAX_CAPACITANCE_F).values
       /\ pc' = "search" /\ i' = 1 /\ j' = 1 /\ best' = Null /\ result' = Null
       /\ UNCHANGED <<decadeOrder, count, di, dj>>

\* lines 152-176: the checks of the arguments and the start of the search
SolveCapacitorsForTarget_Call ==
  \E a \in EqualInputs \cup Seeded("solveCapacitorsForTarget") :
    /\ Callable("solveCapacitorsForTarget", a, EqualInputs)
    /\ IF ~IsFinite(a.targetFcHz) \/ FLe(a.targetFcHz, Zero)
       THEN Returned(Error("Target frequency must be greater than zero."))
       ELSE IF ~IsFinite(a.rPotMax) \/ FLe(a.rPotMax, Zero)
       THEN Returned(Error("Potentiometer maximum must be greater than zero."))
       ELSE IF a.cBase.k # "undefined" /\ (~IsFinite(a.cBase) \/ FLe(a.cBase, Zero))
       THEN Returned(Error("Capacitor seed must be positive when provided."))
       ELSE IF FLt(Default(a.rSeriesTop, Zero), Zero)
               \/ FLt(Default(a.rSeriesBottom, Zero), Zero)
       THEN Returned(Error("Series resistors must be non-negative."))
       ELSE EqualSearch(effectiveR(Half, a.rPotMax, Default(a.rSeriesTop, Zero),
                                   Default(a.rSeriesBottom, Zero),
                                   Default(a.eps, DEFAULT_EPSILON_OHMS)))

\* lines 194-196
OfferedCapacitor(candidate, incumbent) ==
  Better(candidate, incumbent, compareCapacitorCandidates(candidate, incumbent) < 0)

\* lines 178-198: one pair of the loops
SolveCapacitorsForTarget_Step ==
  /\ fn = "solveCapacitorsForTarget" /\ pc = "search"
  /\ best' = OfferedCapacitor(
               evaluateCapacitorCandidate(capacitors[i], capacitors[j],
                                          args.targetFcHz, rEffective, args.cBase),
               best)
  /\ NextPair
  /\ UNCHANGED <<fn, args, result, capacitors, rEffective, decadeOrder, count,
                 di, dj, calls, first, caller>>

\* lines 204-205
CapacitorSelection(chosen, targetFcHz) ==
  [tag |-> "result", c1 |-> chosen.c1, c2 |-> chosen.c2, fc50 |-> chosen.fc,
   deviation |-> IF FGt(chosen.fc, Zero)
                 THEN FDiv(FSub(chosen.fc, targetFcHz), targetFcHz) ELSE Zero]

\* lines 200-205
SolveCapacitorsForTarget_Return ==
  /\ fn = "solveCapacitorsForTarget" /\ pc = "return"
  /\ result' = IF best.tag = "null" THEN Error(NoCombination)
               ELSE CapacitorSelection(best, args.targetFcHz)
  /\ pc' = "done"
  /\ UNCHANGED <<fn, args, calls, first, caller>> /\ UNCHANGED locals

(***************************************************************************)
(* pickE6CapsForF50                                                        *)
(***************************************************************************)
\* bestOverall and bestWithinTolerance
Bests(overall, within) == [tag |-> "bests", overall |-> overall, within |-> within]

\* lines 155-166: the map, the order of the decades and the first pass
PotSearch(valuesByDecade, cBase) ==
  IF Len(valuesByDecade) = 0 THEN Returned(Null)
  ELSE /\ capacitors' = valuesByDecade
       /\ decadeOrder' = sortedDecades(valuesByDecade, cBase)
       /\ count' = 1 /\ di' = 1 /\ dj' = 1 /\ i' = 1 /\ j' = 1
       /\ best' = Bests(Null, Null)
       /\ pc' = "search" /\ result' = Null
       /\ UNCHANGED rEffective

\* lines 138-166
PickE6CapsForF50_Call ==
  \E a \in PotInputs \cup Seeded("pickE6CapsForF50") :
    /\ Callable("pickE6CapsForF50", a, PotInputs)
    /\ IF ~IsFinite(a.fTarget) \/ FLe(a.fTarget, Zero) THEN Returned(Null)
       ELSE IF ~IsFinite(a.rPotMax) \/ FLe(a.rPotMax, Zero) THEN Returned(Null)
       ELSE IF FLe(FMul(Half, a.rPotMax), Zero) THEN Returned(Null)
       ELSE PotSearch(buildCapacitorValues, a.cBase)

\* lines 185-193
WithinOffered(candidate, within, tolerance) ==
  IF candidate.tag = "null" THEN within
  ELSE IF ~FLe(candidate.relErr, tolerance) THEN within
  ELSE Better(candidate, within, FLt(compareCandidateScores(candidate, within), Zero))

\* lines 180-193
BestsOffered(candidate, bests, tolerance) ==
  Bests(Better(candidate, bests.overall,
               FLt(compareCandidateScores(candidate, bests.overall), Zero)),
        WithinOffered(candidate, bests.within, tolerance))

\* an end of pass that never widens the set of decades
NextPassOnce(within) ==
  /\ di' = 1 /\ dj' = 1 /\ i' = 1 /\ j' = 1 /\ count' = count /\ pc' = "return"

\* an end of pass that adds two decades at a time
NextPassByTwo(within) ==
  /\ di' = 1 /\ dj' = 1 /\ i' = 1 /\ j' = 1
  /\ IF within.tag # "null" THEN count' = count /\ pc' = "return"
     ELSE IF count < Len(decadeOrder)
     THEN count' = MinI(count + 2, Len(decadeOrder)) /\ pc' = "search"
     ELSE count' = count + 1 /\ pc' = "return"

\* lines 168, 199-201: the end of a pass
NextPass(within) ==
  /\ di' = 1 /\ dj' = 1 /\ i' = 1 /\ j' = 1
  /\ IF within.tag # "null" THEN count' = count /\ pc' = "return"
     ELSE IF count < Len(decadeOrder) THEN count' = count + 1 /\ pc' = "search"
     ELSE count' = count + 1 /\ pc' = "return"

\* lines 171-179: the four loops of a pass advance by one pair
NextInPass(within) ==
  IF j < Len(MapGet(capacitors, decadeOrder[dj]))
  THEN j' = j + 1 /\ UNCHANGED <<count, di, dj, i>> /\ pc' = "search"
  ELSE IF i < Len(MapGet(capacitors, decadeOrder[di]))
  THEN j' = 1 /\ i' = i + 1 /\ UNCHANGED <<count, di, dj>> /\ pc' = "search"
  ELSE IF dj < count
  THEN j' = 1 /\ i' = 1 /\ dj' = dj + 1 /\ UNCHANGED <<count, di>> /\ pc' = "search"
  ELSE IF di < count
  THEN j' = 1 /\ i' = 1 /\ dj' = 1 /\ di' = di + 1 /\ UNCHANGED count /\ pc' = "search"
  ELSE NextPass(within)

\* lines 168-202: one pair of the loops
PickE6CapsForF50_Step ==
  /\ fn = "pickE6CapsForF50" /\ pc = "search"
  /\ best' = BestsOffered(
               createCandidate(MapGet(capacitors, decadeOrder[di])[i],
                               MapGet(capacitors, decadeOrder[dj])[j],
                               args.fTarget, FMul(Half, args.rPotMax)),
               best, Default(args.tolerance, DEFAULT_RELATIVE_TOLERANCE))
  /\ NextInPass(best'.within)
  /\ UNCHANGED <<fn, args, result, capacitors, rEffective, decadeOrder, calls, first, caller>>

\* lines 209-216
Picked(chosen, tolerance) ==
  [tag |-> "result", c1 |-> chosen.c1, c2 |-> chosen.c2, q |-> chosen.q,
   f50 |-> chosen.f50, relErr |-> chosen.relErr,
   withinTolerance |-> FLe(chosen.relErr, tolerance)]

\* lines 204-207: bestWithinTolerance ?? bestOverall
Chosen(bests) == IF bests.within.tag # "null" THEN bests.within ELSE bests.overall

\* lines 204-216
PickE6CapsForF50_Return ==
  /\ fn = "pickE6CapsForF50" /\ pc = "return"
  /\ result' = IF Chosen(best).tag = "null" THEN Null
               ELSE Picked(Chosen(best), Default(args.tolerance, DEFAULT_RELATIVE_TOLERANCE))
  /\ pc' = "done"
  /\ UNCHANGED <<fn, args, calls, first, caller>> /\ UNCHANGED locals

(***************************************************************************)
(* The functions that return at once                                       *)
(***************************************************************************)
NetworkArgs(r1, r2, c1, c2) == [r1 |-> r1, r2 |-> r2, c1 |-> c1, c2 |-> c2]

NetworkInputs ==
  {NetworkArgs(r1, r2, c1, c2) :
     r1 \in {Lit(1800, 0), Lit(-1800, 0), Zero},
     r2 \in {Lit(2700, 0), Lit(-2700, 0), Inf(1)},
     c1 \in {Lit(47, -10), Lit(-47, -10), NaN},
     c2 \in {Lit(1, -9), Lit(-1, -9), Zero}}

ComputeNaturalFrequencyHz_Call ==
  \E a \in NetworkInputs :
    /\ Callable("computeNaturalFrequencyHz", a, NetworkInputs)
    /\ Returned(computeNaturalFrequencyHz(a.r1, a.r2, a.c1, a.c2))

ComputeQualityFactor_Call ==
  \E a \in NetworkInputs :
    /\ Callable("computeQualityFactor", a, NetworkInputs)
    /\ Returned(computeQualityFactor(a.r1, a.r2, a.c1, a.c2))

SolveResistorsForCapacitors_Call ==
  \E a \in ResistorInputs :
    /\ Callable("solveResistorsForCapacitors", a, ResistorInputs)
    /\ Returned(solveResistorsForCapacitors(a.fcHz, a.Q, a.c1, a.c2))

WindowArgs(min, max) == [min |-> min, max |-> max]

\* windows, valid and invalid, and the default bounds
WindowInputs ==
  {WindowArgs(lo, hi) :
     lo \in {Undefined, Lit(1, -9), Lit(15, -10), Lit(2, -9), Lit(1, -14),
             Zero, Lit(-1, -9), NaN, Inf(1)},
     hi \in {Undefined, Lit(1, -9), Lit(1, -7), Lit(68, 5), Lit(1, -13), Lit(1, 8),
             Inf(1), NaN}}

\* lines 33-56, with the default parameters of line 33
GenerateE6Capacitors_Call ==
  \E a \in WindowInputs :
    /\ Callable("generateE6Capacitors", a, WindowInputs)
    /\ Returned(generateE6Capacitors(Default(a.min, MIN_CAPACITANCE_F),
                                     Default(a.max, MAX_CAPACITANCE_F)))

SweepArgs(rPotMax, c1Farads, c2Farads, rSeriesTop, rSeriesBottom, eps) ==
  [rPotMax |-> rPotMax, c1Farads |-> c1Farads, c2Farads |-> c2Farads,
   rSeriesTop |-> rSeriesTop, rSeriesBottom |-> rSeriesBottom, eps |-> eps]

\* potentiometers above and below four end stops, capacitors of both signs,
\* with and without series resistors and end stop
SweepInputs ==
  {SweepArgs(r, c1, c2, top, bottom, eps) :
     r \in {Lit(10000, 0), Lit(100, 0), Lit(80, 0), Lit(50, 0), Inf(1), Zero, Lit(-100, 0)},
     c1 \in {Lit(1, -8), Lit(47, -10), Zero},
     c2 \in {Lit(1, -8), Lit(1, -9), Lit(-1, -9)},
     top \in {Undefined, Lit(1000, 0)},
     bottom \in {Undefined, Lit(-5, 0)},
     eps \in {Undefined, Zero, Lit(5, 0), Lit(-5, 0)}}

\* the calls of the sweep that has no series resistors
SweepInputsRRC ==
  {a \in SweepInputs : a.rSeriesTop = Undefined /\ a.rSeriesBottom = Undefined}

\* part_005 lines 46-59, with the default parameters of lines 50-52
SweepPot_Call ==
  \E a \in SweepInputs :
    /\ Callable("sweepPot", a, SweepInputs)
    /\ Returned(sweepPot(a.rPotMax, a.c1Farads, a.c2Farads,
                         Default(a.rSeriesTop, Zero), Default(a.rSeriesBottom, Zero),
                         Default(a.eps, DEFAULT_EPSILON_OHMS)))

\* sklp_equal_pot/solve.ts lines 225-240, with the default parameter of line 229
SweepPotRRC_Call ==
  \E a \in SweepInputsRRC :
    /\ Callable("sweepPotRRC", a, SweepInputsRRC)
    /\ Returned(sweepPotRRC(a.rPotMax, a.c1Farads, a.c2Farads,
                            Default(a.eps, DEFAULT_EPSILON_OHMS)))

NeighborArgs(target, normalizedSeries) ==
  [target |-> target, normalizedSeries |-> normalizedSeries]

\* targets between, at and beside series values, at both ends of a decade,
\* at the ends of the number range, and targets that are no values
NeighborTargets ==
  {Lit(11900, 0), Lit(999, 0), Lit(995, 0), Lit(300, 0), Lit(48, -9), Lit(22, -9),
   Lit(10, 0), Lit(91, 0), Lit(100, 0), Lit(95, 0), Lit(105, -1), Lit(82, 3),
   Dec(2200, 0, 1, 0, -13), Dec(2200, 0, 1000, 0, -13), Dec(2199, 9999, 9999, 0, -13),
   Dec(9999, 9999, 9999, 9999, -13), Lit(999999999, -7), Lit(95, 306), Lit(17, 307), Lit(5, -323),
   Lit(-1, 0), Zero, NaN, Inf(1)}

NeighborInputs ==
  {NeighborArgs(t, s) : t \in NeighborTargets, s \in {E12_SERIES, E24_SERIES, <<>>}}

NearestNeighbors_Call ==
  \E a \in NeighborInputs :
    /\ Callable("nearestNeighbors", a, NeighborInputs)
    /\ Returned(nearestNeighbors(a.target, a.normalizedSeries))

\* three candidates of a ranking
Triple(a, b, c) == [a |-> a, b |-> b, c |-> c]

\* the comparator's verdict on each pair of a triple
Verdicts(ab, bc, ac, ba) == [ab |-> ab, bc |-> bc, ac |-> ac, ba |-> ba]

\* candidates of the fc/Q ranking: equal capacitors with resistor pairs whose
\* spreads are 1 + 6e-10, 1 and 1 + 1.2e-9, two pairs of a search, two pairs
\* whose spreads are the last number below 10 and 10 + 1e-9, and a pair at
\* the seed with a spread of 5
SklpCandidates ==
  {evaluateCandidate(Lit(1, -8), Lit(1, -8), Lit(500, 0), Dec(5000, 0, 300, 0, -13), Undefined),
   evaluateCandidate(Lit(1, -8), Lit(1, -8), Lit(1000, 0), Lit(1000, 0), Undefined),
   evaluateCandidate(Lit(1, -8), Lit(1, -8), Lit(100, 0), Dec(1000, 0, 120, 0, -13), Undefined),
   evaluateCandidate(Lit(68, -8), Lit(33, -8), Dec(2822, 9484, 9125, 9450, -13),
                     Dec(3998, 6598, 207, 9686, -13), Lit(1, -8)),
   evaluateCandidate(Lit(1, -6), Lit(1, -7), Lit(2000, 0), Lit(150, 0), Undefined),
   evaluateCandidate(Lit(1, -6), Lit(1, -7), One, Dec(9999, 9999, 9999, 9999, -15),
                     Undefined),
   evaluateCandidate(Lit(1, -8), Lit(1, -8), One, Dec(1000, 0, 10, 0, -14), Undefined),
   evaluateCandidate(Lit(47, -9), Lit(1, -8), Lit(1000, 0), Lit(5000, 0), Lit(1, -8))}

CompareCandidates_Call ==
  \E a \in SklpCandidates, b \in SklpCandidates, c \in SklpCandidates :
    /\ Callable("compareCandidates", Triple(a, b, c), {Triple(a, b, c)})
    /\ Returned(Verdicts(compareCandidates(a, b), compareCandidates(b, c),
                         compareCandidates(a, c), compareCandidates(b, a)))

\* candidates of the equal-resistor ranking for 1 kHz and 10 kOhm
CapacitorCandidates ==
  {evaluateCapacitorCandidate(p[1], p[2], Lit(1000, 0), Lit(10000, 0), p[3]) :
     p \in {<<Lit(15, -9), Lit(15, -9), Undefined>>,
            <<Lit(15, -10), Lit(1, -9), Undefined>>,
            <<Lit(1, -9), Lit(15, -10), Undefined>>,
            <<Lit(33, -10), Lit(22, -10), Undefined>>,
            <<Lit(22, -9), Lit(1, -8), Lit(220, -9)>>}}

CompareCapacitorCandidates_Call ==
  \E a \in CapacitorCandidates, b \in CapacitorCandidates, c \in CapacitorCandidates :
    /\ Callable("compareCapacitorCandidates", Triple(a, b, c), {Triple(a, b, c)})
    /\ Returned(Verdicts(compareCapacitorCandidates(a, b),
                         compareCapacitorCandidates(b, c),
                         compareCapacitorCandidates(a, c),
                         compareCapacitorCandidates(b, a)))

(***************************************************************************)
(* The caller and the specifications                                       *)
(***************************************************************************)
\* the most calls of each caller
CallsOf(c) ==
  IF c \in {"single", "survey"} THEN 1 ELSE IF c = "seeded" THEN 2 ELSE MaxCalls

\* the caller goes on to its next call, keeping the first one
Again ==
  /\ pc = "done" /\ calls < CallsOf(caller)
  /\ first' = IF calls = 1 THEN [fn |-> fn, args |-> args, result |-> result]
              ELSE first
  /\ calls' = calls + 1 /\ pc' = "idle"
  /\ UNCHANGED <<fn, args, result, caller>> /\ UNCHANGED locals

NextSklp ==
  SolveSallenKeyLP_Call \/ SolveSallenKeyLP_Step \/ SolveSallenKeyLP_Return

SpecSklp == InitSingle /\ [][NextSklp]_vars

NextEqual ==
  SolveCapacitorsForTarget_Call \/ SolveCapacitorsForTarget_Step
  \/ SolveCapacitorsForTarget_Return

SpecEqual == InitSingle /\ [][NextEqual]_vars

NextPot ==
  PickE6CapsForF50_Call \/ PickE6CapsForF50_Step \/ PickE6CapsForF50_Return

SpecPot == InitSingle /\ [][NextPot]_vars

NextPure ==
  ComputeNaturalFrequencyHz_Call \/ ComputeQualityFactor_Call
  \/ SolveResistorsForCapacitors_Call \/ GenerateE6Capacitors_Call
  \/ CompareCandidates_Call \/ CompareCapacitorCandidates_Call
  \/ SweepPot_Call \/ SweepPotRRC_Call \/ NearestNeighbors_Call

SpecPure == InitSingle /\ [][NextPure]_vars

NextSolvers ==
  \/ SolveSallenKeyLP_Call \/ SolveSallenKeyLP_Step \/ SolveSallenKeyLP_Return
  \/ SolveCapacitorsForTarget_Call \/ SolveCapacitorsForTarget_Step
  \/ SolveCapacitorsForTarget_Return
  \/ PickE6CapsForF50_Call \/ PickE6CapsForF50_Step \/ PickE6CapsForF50_Return
  \/ Again

\* each solver called without a seed and then with one
SpecSeeded == InitSeeded /\ [][NextSolvers]_vars

\* the three solvers called in turn
SpecMixed == InitMixed /\ [][NextSolvers]_vars

NextSurvey ==
  \/ SolveSallenKeyLP_Call \/ SolveSallenKeyLP_Step \/ SolveSallenKeyLP_Return
  \/ SolveCapacitorsForTarget_Call \/ SolveCapacitorsForTarget_Step
  \/ SolveCapacitorsForTarget_Return
  \/ PickE6CapsForF50_Call \/ PickE6CapsForF50_Step \/ PickE6CapsForF50_Return
  \/ SolveResistorsForCapacitors_Call

\* the outcomes of the three searches and of the resistor solver
SpecSurvey == InitSurvey /\ [][NextSurvey]_vars

Next == NextSolvers \/ NextPure

Spec == Init /\ [][Next]_vars

(***************************************************************************)
(* Properties                                                              *)
(***************************************************************************)
AnyNonPositive(a) ==
  FLe(a.r1, Zero) \/ FLe(a.r2, Zero) \/ FLe(a.c1, Zero) \/ FLe(a.c2, Zero)

\* C11: computeNaturalFrequencyHz and computeQualityFactor return NaN whenever
\* one of r1, r2, c1, c2 is zero or negative, also when the product of the
\* four is positive.
C11_NaNWhenAnyNonPositive ==
  (pc = "done" /\ fn \in {"computeNaturalFrequencyHz", "computeQualityFactor"}
   /\ AnyNonPositive(args))
    => IsNaN(result)

Comparing == pc = "done" /\ fn \in {"compareCandidates", "compareCapacitorCandidates"}

\* C12: the two tolerant comparators are transitive: whenever compare(a, b) < 0
\* and compare(b, c) < 0, also compare(a, c) < 0.
C12_Transitive ==
  (Comparing /\ result.ab < 0 /\ result.bc < 0) => result.ac < 0

\* C13: a solver called again with the arguments of the first call, after any
\* other call of any solver, returns what the first call returned.
C13_Deterministic ==
  (pc = "done" /\ calls >= 3) => result = first.result

\* the fc/Q solver has returned a pair for the second time
C13_SecondResult ==
  caller = "mixed" /\ pc = "done" /\ calls = 3 /\ fn = "solveSallenKeyLP" /\ result.tag = "result"

\* the distance of a capacitor from a seed in decades
SeedDistance(c2, seed) == FAbs(FLog10(FDiv(c2, seed)))

\* solveCapacitorsForTarget has returned pairs for a call without a seed and
\* for the same call with a seed
SeededPair ==
  /\ caller = "seeded" /\ calls = 2 /\ pc = "done"
  /\ fn = "solveCapacitorsForTarget"
  /\ result.tag = "result" /\ first.result.tag = "result"

\* C14: the c2 of the seeded call is not farther from the seed, in decades,
\* than the c2 of the call without a seed; for 1 kHz, 20 kOhm and the seed
\* 220e-9 the two differ and the seeded one is strictly closer.
C14_SeedBias ==
  SeededPair =>
    /\ FLe(SeedDistance(result.c2, args.cBase), SeedDistance(first.result.c2, args.cBase))
    /\ args = EqualSeeded =>
         /\ result.c2 # first.result.c2
         /\ FLt(SeedDistance(result.c2, args.cBase),
                SeedDistance(first.result.c2, args.cBase))

\* the seeded call of the example has returned c2 = 150 nF after the call
\* without a seed returned 15 nF
C14_ExamplePair ==
  SeededPair /\ args = EqualSeeded /\ first.args = EqualCommon
  /\ result.c2 = Lit(15, -8) /\ first.result.c2 = Lit(15, -9)

\* a solver has returned for a call without a seed and for the same call
\* with a finite positive seed
SeededCall ==
  /\ caller = "seeded" /\ calls = 2 /\ pc = "done"
  /\ IsFinite(args.cBase) /\ FGt(args.cBase, Zero)
  /\ first.args = [args EXCEPT !.cBase = Undefined]

\* C15: a solver returns a result with a seed exactly when it returns one
\* without, and the withinTolerance flag of pickE6CapsForF50 is the same with
\* and without the seed.
C15_SeedFeasibility ==
  SeededCall =>
    /\ (result.tag = "result") <=> (first.result.tag = "result")
    /\ (fn = "pickE6CapsForF50" /\ result.tag = "result")
         => result.withinTolerance = first.result.withinTolerance

\* the seeded fc/Q call has returned a pair, as the call without a seed did
C15_SeededResult ==
  SeededCall /\ fn = "solveSallenKeyLP" /\ args.ratio = Lit(10, 0)
  /\ result.tag = "result" /\ first.result.tag = "result"

\* the capacitors of the window of the pot search
WindowCapacitors ==
  UNION {{buildCapacitorValues[n].values[k] : k \in 1..Len(buildCapacitorValues[n].values)} :
           n \in 1..Len(buildCapacitorValues)}

\* pickE6CapsForF50 has returned for a finite positive target and pot
Picking ==
  /\ pc = "done" /\ fn = "pickE6CapsForF50"
  /\ IsFinite(args.fTarget) /\ FGt(args.fTarget, Zero)
  /\ IsFinite(args.rPotMax) /\ FGt(args.rPotMax, Zero)

\* the tolerance of the call
ToleranceOf(a) == Default(a.tolerance, DEFAULT_RELATIVE_TOLERANCE)

\* the candidate of a pair is within the tolerance of the call
PairWithin(c1, c2) ==
  LET candidate == createCandidate(c1, c2, args.fTarget, FMul(Half, args.rPotMax))
  IN  candidate.tag # "null" /\ FLe(candidate.relErr, ToleranceOf(args))

\* C16: when some pair of window capacitors is within the tolerance,
\* pickE6CapsForF50 returns a result flagged withinTolerance with relErr within
\* the tolerance; the flag of a result is true exactly when its relErr is
\* within the tolerance.
C16_WithinTolerance ==
  Picking =>
    /\ (\E c1 \in WindowCapacitors, c2 \in WindowCapacitors : PairWithin(c1, c2))
         => /\ result.tag = "result"
            /\ result.withinTolerance
            /\ FLe(result.relErr, ToleranceOf(args))
    /\ result.tag = "result"
         => (result.withinTolerance <=> FLe(result.relErr, ToleranceOf(args)))

\* the call for 1 kHz and 46.8 kOhm has returned a pair within 2 %
C16_ExampleWithin ==
  Picking /\ args = PotCommon /\ result.tag = "result" /\ result.withinTolerance
  /\ FLe(result.relErr, DEFAULT_RELATIVE_TOLERANCE)

\* C17: for every finite positive fTarget and rPotMax pickE6CapsForF50 returns
\* a result, and when no pair of the window is within the tolerance the result
\* is flagged withinTolerance = false with relErr above the tolerance.
C17_AlwaysResult ==
  Picking =>
    /\ result.tag = "result"
    /\ (~ \E c1 \in WindowCapacitors, c2 \in WindowCapacitors : PairWithin(c1, c2))
         => ~result.withinTolerance /\ FGt(result.relErr, ToleranceOf(args))

\* solveSallenKeyLP is searching or has searched with a ratio above zero
RatioRequested ==
  /\ fn = "solveSallenKeyLP" /\ pc \in {"search", "return", "done"}
  /\ Truthy(args.ratio) /\ FGt(args.ratio, Zero)

\* |c1 / c2 - ratio| / ratio <= 1e-6
RatioMatched(c1, c2, ratio) ==
  FLe(FDiv(FAbs(FSub(FDiv(c1, c2), ratio)), ratio), RATIO_TOLERANCE)

\* some pair of the requested ratio has resistors within the bounds
RatioFeasible ==
  \E m \in 1..Len(capacitors), n \in 1..Len(capacitors) :
    /\ RatioMatched(capacitors[m], capacitors[n], args.ratio)
    /\ Bounded(capacitors[m], capacitors[n], args.cBase,
               solveResistorsForCapacitors(args.fcHz, args.Q, capacitors[m],
                                           capacitors[n])).tag # "null"

\* C18: with a ratio above zero only the pairs whose c1 / c2 is within 1e-6
\* (relative) of the ratio are evaluated, so the best pair and the returned pair
\* have that ratio, and the solve returns the not-found error when no such pair
\* is feasible.
C18_RatioHonoured ==
  RatioRequested =>
    /\ best.tag # "null" => RatioMatched(best.c1, best.c2, args.ratio)
    /\ pc = "done" =>
         IF RatioFeasible
         THEN result.tag = "result" /\ RatioMatched(result.c1, result.c2, args.ratio)
         ELSE result = Error(NoFeasiblePair)

\* C18 for the finite ratios
C18_FiniteRatioHonoured ==
  (fn = "solveSallenKeyLP" /\ IsFinite(args.ratio)) => C18_RatioHonoured

\* solveCapacitorsForTarget has returned a pair
Selected == pc = "done" /\ fn = "solveCapacitorsForTarget" /\ result.tag = "result"

\* the accuracy error |log10(fc50 / targetFcHz)| of the returned pair
AccuracyError == FAbs(FLog10(FDiv(result.fc50, args.targetFcHz)))

\* the candidate of the m-th and n-th capacitor of the window for the call
WindowCandidate(m, n) ==
  evaluateCapacitorCandidate(capacitors[m], capacitors[n], args.targetFcHz,
                             rEffective, args.cBase)

\* C19: with or without a seed, the accuracy error of the pair that
\* solveCapacitorsForTarget returns is within 1e-9 of the least accuracy error
\* over all pairs of window capacitors.
C19_SeedAfterAccuracy ==
  Selected =>
    LET returned == AccuracyError
    IN  \A m \in 1..Len(capacitors), n \in 1..Len(capacitors) :
          \/ WindowCandidate(m, n).tag = "null"
          \/ FLe(FSub(returned, WindowCandidate(m, n).fcDelta), COMPARISON_TOLERANCE)

\* a seeded call returns the pair at the seed although a pair farther from the
\* seed is more accurate by less than the tolerance
C19_SeedAmongTied ==
  /\ Selected /\ Truthy(args.cBase) /\ result.c2 = args.cBase
  /\ LET returned == AccuracyError
     IN  \E m \in 1..Len(capacitors), n \in 1..Len(capacitors) :
           /\ WindowCandidate(m, n).tag # "null"
           /\ capacitors[n] # args.cBase
           /\ FGt(FSub(returned, WindowCandidate(m, n).fcDelta), Lit(1, -10))

\* C20: in compareCandidates of the fc/Q solver the spread decides first:
\* whenever a.spread < b.spread - 1e-9, compare(a, b) < 0 and compare(b, a) > 0,
\* whatever the other keys.
C20_SpreadFirst ==
  (pc = "done" /\ fn = "compareCandidates"
   /\ FLt(args.a.spread, FSub(args.b.spread, COMPARISON_TOLERANCE)))
    => result.ab < 0 /\ result.ba > 0

\* C20 away from the pairs whose spreads are one tolerance apart: b.spread
\* also above a.spread + 1e-9
C20_SpreadFirstBothWays ==
  (pc = "done" /\ fn = "compareCandidates"
   /\ FLt(args.a.spread, FSub(args.b.spread, COMPARISON_TOLERANCE))
   /\ FGt(args.b.spread, FAdd(args.a.spread, COMPARISON_TOLERANCE)))
    => result.ab < 0 /\ result.ba > 0

\* solveSallenKeyLP has returned a result
Solved == pc = "done" /\ fn = "solveSallenKeyLP" /\ result.tag = "result"

\* |x - y| / y
RelativeError(x, y) == FDiv(FAbs(FSub(x, y)), y)

\* C1: the fc and Q recomputed from the r1, r2, c1, c2 of every result of
\* solveSallenKeyLP are within 1e-6 (relative) of the requested fcHz and Q.
C1_RecomputedTarget ==
  Solved =>
    /\ result.fc = computeNaturalFrequencyHz(result.r1, result.r2, result.c1, result.c2)
    /\ result.Q = computeQualityFactor(result.r1, result.r2, result.c1, result.c2)
    /\ FLe(RelativeError(result.fc, args.fcHz), Lit(1, -6))
    /\ FLe(RelativeError(result.Q, args.Q), Lit(1, -6))

\* the result for 1 kHz and Q = 0.707: 680 nF, 330 nF and two unequal resistors
C1_CommonTarget ==
  Solved /\ args = SklpCommon /\ result.c1 = Lit(68, -8) /\ result.c2 = Lit(33, -8)
  /\ FLt(result.r1, result.r2)

\* the capacitors and the resistors of a result are within their bounds, the
\* resistors in order
WithinBounds ==
  /\ \E m \in 1..Len(capacitors) : capacitors[m] = result.c1
  /\ \E n \in 1..Len(capacitors) : capacitors[n] = result.c2
  /\ FGe(result.c1, MIN_CAPACITANCE_F) /\ FLe(result.c1, MAX_CAPACITANCE_F)
  /\ FGe(result.c2, MIN_CAPACITANCE_F) /\ FLe(result.c2, MAX_CAPACITANCE_F)
  /\ IsFinite(result.r1) /\ IsFinite(result.r2)
  /\ FGe(result.r1, MIN_RESISTANCE_OHMS) /\ FLe(result.r2, MAX_RESISTANCE_OHMS)
  /\ FLe(result.r1, result.r2)

\* 4 Q^2 c2 for the Q of the call
FourQSquared(c2) == FMul(FMul(FMul(Four, args.Q), args.Q), c2)

\* C2: every result of solveSallenKeyLP has E6 capacitors within 100 pF..10 uF,
\* finite resistors within 100 Ohm..10 MOhm with r1 <= r2, and
\* c1 >= 4 Q^2 c2, hence c1 > c2 whenever Q > 0.5.
C2_Feasible ==
  Solved =>
    /\ WithinBounds
    /\ FGe(result.c1, FourQSquared(result.c2))
    /\ FGt(args.Q, Half) => FGt(result.c1, result.c2)

\* C2 with the slack of the pre-check: c1 + Number.EPSILON >= 4 Q^2 c2
C2_FeasibleWithinEpsilon ==
  Solved =>
    /\ WithinBounds
    /\ FGe(FAdd(result.c1, EPSILON), FourQSquared(result.c2))

\* a result whose c1 is above 4 Q^2 c2
C2_CommonFeasible ==
  Solved /\ args = SklpCommon /\ WithinBounds
  /\ FGt(result.c1, FourQSquared(result.c2))

\* a search has returned after enumerating its pairs
Searched(f) == pc = "done" /\ fn = f /\ capacitors # <<>>

\* the resistors solved for a pair are within the resistor bounds
ResistorsWithinBounds(pair) ==
  /\ pair.tag = "pair"
  /\ FGe(pair.r1, MIN_RESISTANCE_OHMS) /\ FGe(pair.r2, MIN_RESISTANCE_OHMS)
  /\ FLe(pair.r1, MAX_RESISTANCE_OHMS) /\ FLe(pair.r2, MAX_RESISTANCE_OHMS)

\* some pair enumerated by solveSallenKeyLP (of the ratio, if one is requested)
\* is feasible
SklpFeasible ==
  \E m \in 1..Len(capacitors), n \in 1..Len(capacitors) :
    /\ (Truthy(args.ratio) /\ FGt(args.ratio, Zero))
         => ~FGt(RelativeError(FDiv(capacitors[m], capacitors[n]), args.ratio),
                 RATIO_TOLERANCE)
    /\ ResistorsWithinBounds(solveResistorsForCapacitors(args.fcHz, args.Q,
                                                         capacitors[m], capacitors[n]))

\* some pair enumerated by solveCapacitorsForTarget has a candidate
EqualFeasible ==
  \E m \in 1..Len(capacitors), n \in 1..Len(capacitors) :
    WindowCandidate(m, n).tag # "null"

\* some pair enumerated by pickE6CapsForF50 has a candidate
PotFeasible ==
  \E c1 \in WindowCapacitors, c2 \in WindowCapacitors :
    createCandidate(c1, c2, args.fTarget, FMul(Half, args.rPotMax)).tag # "null"

\* C3: each search returns its not-found failure exactly when no enumerated
\* pair is feasible, and a candidate whenever one is.
C3_NotFoundIffNoneFeasible ==
  /\ Searched("solveSallenKeyLP")
       => IF SklpFeasible THEN result.tag = "result" ELSE result = Error(NoFeasiblePair)
  /\ Searched("solveCapacitorsForTarget")
       => IF EqualFeasible THEN result.tag = "result" ELSE result = Error(NoCombination)
  /\ Searched("pickE6CapsForF50")
       => IF PotFeasible THEN result.tag = "result" ELSE result = Null

\* the search for the ratio 1 at Q = 0.707 has enumerated the pairs and found
\* none feasible
C3_NoneFeasible ==
  Searched("solveSallenKeyLP") /\ args = SklpRatio1 /\ i > Len(capacitors)
  /\ result = Error(NoFeasiblePair)

\* x is not a finite number above zero
Invalid(x) == ~IsFinite(x) \/ FLe(x, Zero)

\* C9: an fcHz or Q (for solveResistorsForCapacitors also a c1 or c2) that is not
\* finite or not above zero makes solveResistorsForCapacitors and
\* solveSallenKeyLP return an invalid-input error without evaluating a pair;
\* so for the targetFcHz and rPotMax of solveCapacitorsForTarget, and
\* pickE6CapsForF50 returns null for its fTarget and rPotMax.
C9_InvalidInputRejected ==
  /\ (fn = "solveResistorsForCapacitors"
      /\ (Invalid(args.fcHz) \/ Invalid(args.Q) \/ Invalid(args.c1) \/ Invalid(args.c2)))
       => result \in {Error("Cutoff frequency must be greater than zero."),
                      Error("Quality factor must be greater than zero."),
                      Error("Capacitance values must be positive.")}
  /\ (fn = "solveSallenKeyLP" /\ (Invalid(args.fcHz) \/ Invalid(args.Q)))
       => /\ pc = "done" /\ capacitors = <<>> /\ best = Null
          /\ result \in {Error("Cutoff frequency must be greater than zero."),
                         Error("Quality factor must be greater than zero.")}
  /\ (fn = "solveCapacitorsForTarget"
      /\ (Invalid(args.targetFcHz) \/ Invalid(args.rPotMax)))
       => /\ pc = "done" /\ capacitors = <<>> /\ best = Null
          /\ result \in {Error("Target frequency must be greater than zero."),
                         Error("Potentiometer maximum must be greater than zero.")}
  /\ (fn = "pickE6CapsForF50" /\ (Invalid(args.fTarget) \/ Invalid(args.rPotMax)))
       => pc = "done" /\ capacitors = <<>> /\ best = Null /\ result = Null

\* solveSallenKeyLP has rejected a cutoff that is not a number
C9_RejectedCutoff ==
  /\ pc = "done" /\ fn = "solveSallenKeyLP" /\ args.fcHz = NaN
  /\ result = Error("Cutoff frequency must be greater than zero.")

\* C10: a seed that is supplied but is not finite and positive is rejected as
\* invalid input by every solver that takes a seed.
C10_InvalidSeedRejected ==
  (pc = "done" /\ fn \in {"solveSallenKeyLP", "solveCapacitorsForTarget", "pickE6CapsForF50"}
   /\ args.cBase.k # "undefined" /\ Invalid(args.cBase))
    => result.tag = "error"

\* solveResistorsForCapacitors has returned for a finite positive target and
\* finite positive capacitors
Solving ==
  /\ pc = "done" /\ fn = "solveResistorsForCapacitors"
  /\ ~Invalid(args.fcHz) /\ ~Invalid(args.Q) /\ ~Invalid(args.c1) /\ ~Invalid(args.c2)

\* C4: for a finite positive target and capacitors with c1 < 4 Q^2 c2,
\* solveResistorsForCapacitors returns the error of the pre-check, never a
\* pair and never the error of the discriminant test.
C4_PreCheckRejects ==
  (Solving /\ FLt(args.c1, FourQSquared(args.c2))) => result = Error(UnrealizableQ)

\* C4 with the slack of the pre-check: c1 + Number.EPSILON < 4 Q^2 c2
C4_PreCheckRejectsBeyondEpsilon ==
  (Solving /\ FLt(FAdd(args.c1, EPSILON), FourQSquared(args.c2)))
    => result = Error(UnrealizableQ)

\* equal capacitors of 1 nF at 1 kHz and Q = 0.707 are rejected by the
\* pre-check
C4_EqualCapacitors ==
  /\ Solving /\ args = ResistorArgs(Lit(1000, 0), Lit(707, -3), Lit(1, -9), Lit(1, -9))
  /\ result = Error(UnrealizableQ)

\* 2 pi fc for the fc of the call
Omega0 == FMul(FMul(Two, PI), args.fcHz)

\* C5: the resistors that solveResistorsForCapacitors returns satisfy
\* r1 r2 = 1 / (w0^2 c1 c2) and r1 + r2 = 1 / (w0 Q c2), to within 1e-6
\* (relative).
C5_VietaIdentities ==
  (Solving /\ result.tag = "pair") =>
    /\ FLe(RelativeError(FMul(result.r1, result.r2),
                         FDiv(One, FMul(FMul(FMul(Omega0, Omega0), args.c1), args.c2))),
           Lit(1, -6))
    /\ FLe(RelativeError(FAdd(result.r1, result.r2),
                         FDiv(One, FMul(FMul(Omega0, args.Q), args.c2))),
           Lit(1, -6))

\* C5 for the pairs whose resistors are at most a factor 1e5 apart
C5_VietaIdentitiesModerateSpread ==
  (pc = "done" /\ fn = "solveResistorsForCapacitors" /\ result.tag = "pair"
   /\ FLe(result.r2, FMul(Lit(1, 5), result.r1)))
    => C5_VietaIdentities

\* the two roots before the checks of lines 135-137
RootsOf(sum, sqrtTerm) ==
  <<FDiv(FSub(sum, sqrtTerm), Two), FDiv(FAdd(sum, sqrtTerm), Two)>>

\* the discriminant of the call
DiscriminantOf(sum) ==
  FSub(FMul(sum, sum), FMul(Four, VietaProduct(Omega0, args.c1, args.c2)))

\* the pre-check and the discriminant test pass and a root is not finite or
\* not above zero
Degenerate ==
  /\ ~FLt(FAdd(args.c1, EPSILON), FourQSquared(args.c2))
  /\ ~FLt(DiscriminantOf(VietaSum(Omega0, args.Q, args.c2)), FNeg(DISCRIMINANT_TOLERANCE))
  /\ \E n \in 1..2 :
       Invalid(RootsOf(VietaSum(Omega0, args.Q, args.c2),
                       FSqrt(FMax(Zero, DiscriminantOf(VietaSum(Omega0, args.Q, args.c2)))))[n])

\* C6: the two resistors of a pair returned by solveResistorsForCapacitors are
\* finite, above zero and in order, and a solve with a root that is not
\* returns the degenerate-solution error.
C6_PositiveOrdered ==
  Solving =>
    /\ result.tag = "pair"
         => /\ IsFinite(result.r1) /\ IsFinite(result.r2)
            /\ FGt(result.r1, Zero) /\ FGt(result.r2, Zero)
            /\ FLe(result.r1, result.r2)
    /\ Degenerate => result = Error(NoPositiveResistors)

\* a pair of two unequal resistors, and so sorted, has been returned
C6_OrderedPair ==
  Solving /\ result.tag = "pair" /\ FLt(result.r1, result.r2)

\* generateE6Capacitors has returned a series
Generated == pc = "done" /\ fn = "generateE6Capacitors" /\ result.tag = "value"

\* the bounds of the call, with the defaults of line 33
WindowMin == Default(args.min, MIN_CAPACITANCE_F)

WindowMax == Default(args.max, MAX_CAPACITANCE_F)

C8_InvalidRangeReturned ==
  (pc = "done" /\ fn = "generateE6Capacitors"
   /\ (Invalid(WindowMin) \/ ~IsFinite(WindowMax) \/ FLt(WindowMax, WindowMin)))
    => result.tag = "error"

(***************************************************************************)
(* The sweep of the potentiometer                                          *)
(***************************************************************************)
\* a sweep has returned its points
Swept == pc = "done" /\ fn \in {"sweepPot", "sweepPotRRC"}

\* the end stop of the call
EndStop == FMax(Default(args.eps, DEFAULT_EPSILON_OHMS), Zero)

\* the cutoff of the resistance R with the capacitors of the call
CutoffAt(R) ==
  FDiv(One, FMul(FMul(FMul(Two, PI), R), FSqrt(FMul(args.c1Farads, args.c2Farads))))

\* the points are those of the five positions, in order
FivePositions ==
  /\ Len(result) = 5
  /\ \A k \in 1..5 : result[k].alpha = <<Zero, Lit(25, -2), Half, Lit(75, -2), One>>[k]

Neighboured == pc = "done" /\ fn = "nearestNeighbors"

\* the target is a finite positive number and the series has members
NeighbourSought ==
  /\ IsFinite(args.target) /\ FGt(args.target, Zero)
  /\ Len(args.normalizedSeries) > 0

\* the exponent of the decade in which the target is a two-digit number
TargetDecade == FloorInt(FLog10(args.target)) - 1

\* the members of the series in the decades around the target
ExtendedSeries ==
  {FMul(args.normalizedSeries[x], Lit(1, k)) :
     x \in 1..Len(args.normalizedSeries), k \in (TargetDecade - 2)..(TargetDecade + 2)}

\* below and above are the members next to pivot on both sides
NextTo(pivot) ==
  /\ result.below \in ExtendedSeries /\ result.above \in ExtendedSeries
  /\ FGt(result.below, Zero) /\ IsFinite(result.above)
  /\ FLt(result.below, pivot) /\ FLt(pivot, result.above)
  /\ \A v \in ExtendedSeries :
       /\ ~(FLt(result.below, v) /\ FLt(v, pivot))
       /\ ~(FLt(pivot, v) /\ FLt(v, result.above))

\* the member within 1e-9 of the target as a two-digit number, or the target
NearestMember ==
  LET near == {x \in 1..Len(args.normalizedSeries) :
                 FLt(FAbs(FSub(args.normalizedSeries[x],
                               FDiv(args.target, Lit(1, TargetDecade)))),
                     Lit(1, -9))}
  IN  IF near = {} THEN args.target
      ELSE FMul(args.normalizedSeries[CHOOSE x \in near : TRUE], Lit(1, TargetDecade))

\* C22: for a finite positive target and a two-digit series, below and above
\* are members of the series scaled by a power of ten, below < target < above,
\* with no member strictly between below and the target or between the target
\* and above; for a target that is not finite and positive, or an empty
\* series, both are null
C22_AdjacentNeighbours ==
  Neighboured
  => IF NeighbourSought THEN NextTo(args.target)
     ELSE result = [below |-> Null, above |-> Null]

\* C22 (amended): the same with the target replaced by the member of the
\* series that is within 1e-9 of the target taken as a two-digit number, when
\* there is one, for targets from 1e-300 to 1e300
C22_AdjacentWithinTolerance ==
  Neighboured
  => IF NeighbourSought
     THEN (FGe(args.target, Lit(1, -300)) /\ FLe(args.target, Lit(1, 300)))
          => NextTo(NearestMember)
     ELSE result = [below |-> Null, above |-> Null]

\* the neighbours of 22 nF in E12 are 18 nF and 27 nF
C22_NeighboursOfMember ==
  /\ Neighboured /\ args.target = Lit(22, -9) /\ args.normalizedSeries = E12_SERIES
  /\ result = [below |-> Lit(18, -9), above |-> Lit(27, -9)]

(***************************************************************************)
(* The returned candidate against the other pairs                          *)
(***************************************************************************)
\* the candidate of the pair solveSallenKeyLP has returned
ReturnedCandidate ==
  evaluateCandidate(result.c1, result.c2, result.r1, result.r2, args.cBase)

\* the candidate of the pair at positions m and n of the window, Null when the
\* pair is skipped
EnumeratedCandidate(m, n) ==
  TryPair(args.fcHz, args.Q, args.cBase, args.ratio, capacitors[m], capacitors[n])

\* C23: the candidate solveSallenKeyLP returns is a minimum of the feasible
\* pairs under compareCandidates: no feasible pair of the window compares
\* strictly less than it, wherever the pair stands in the enumeration
C23_ComparatorMinimum ==
  Solved
  => \A m \in 1..Len(capacitors), n \in 1..Len(capacitors) :
       EnumeratedCandidate(m, n) # Null
       => compareCandidates(EnumeratedCandidate(m, n), ReturnedCandidate) >= 0

\* the search for 1 kHz and Q = 0.707 has returned a pair that compares
\* strictly less than a feasible pair enumerated before it and than one
\* enumerated after it
C23_ChosenAmongSeveral ==
  /\ Solved /\ args = SklpCommon
  /\ \E m \in 1..Len(capacitors), n \in 1..Len(capacitors) :
       /\ capacitors[m] = result.c1 /\ capacitors[n] = result.c2
       /\ \E p \in 1..Len(capacitors), q \in 1..Len(capacitors) :
            /\ p < m /\ EnumeratedCandidate(p, q) # Null
            /\ compareCandidates(ReturnedCandidate, EnumeratedCandidate(p, q)) < 0
       /\ \E p \in 1..Len(capacitors), q \in 1..Len(capacitors) :
            /\ p > m /\ EnumeratedCandidate(p, q) # Null
            /\ compareCandidates(ReturnedCandidate, EnumeratedCandidate(p, q)) < 0

(***************************************************************************)
(* The order of the comparators                                            *)
(***************************************************************************)
\* the candidates x and y are of different capacitor pairs
DistinctPairs(x, y) == x.c1 # y.c1 \/ x.c2 # y.c2

\* C24: for two candidates of the window whose capacitor pairs differ, neither
\* compareCandidates nor compareCapacitorCandidates returns 0
C24_NeverTies ==
  Comparing
  => /\ DistinctPairs(args.a, args.b) => (result.ab # 0 /\ result.ba # 0)
     /\ DistinctPairs(args.b, args.c) => result.bc # 0
     /\ DistinctPairs(args.a, args.c) => result.ac # 0

\* x is below y by more than the tolerance of the comparators
ClearlyBelow(x, y) == FLt(x, FSub(y, COMPARISON_TOLERANCE))

\* x and y are within the tolerance of the comparators
Tied(x, y) == ~ClearlyBelow(x, y) /\ ~ClearlyBelow(y, x)

\* C25: the comparators walk the keys in the order accuracy error, seed bias,
\* topology penalty, absolute size: in the fc/Q solver, whose candidates have
\* no accuracy error, the candidate nearer the seed compares less whatever
\* the resistor spreads; in the equal-R solver the candidate of the smaller
\* accuracy error compares less, and among candidates of tied accuracy the
\* one nearer the seed, whatever the capacitor ratios
C25_SeedBeforeTopology ==
  /\ (pc = "done" /\ fn = "compareCandidates"
      /\ ClearlyBelow(args.a.baseDelta, args.b.baseDelta))
     => result.ab < 0
  /\ (pc = "done" /\ fn = "compareCapacitorCandidates")
     => /\ ClearlyBelow(args.a.fcDelta, args.b.fcDelta) => result.ab < 0
        /\ (Tied(args.a.fcDelta, args.b.fcDelta)
            /\ ClearlyBelow(args.a.baseDelta, args.b.baseDelta))
           => result.ab < 0

(***************************************************************************)
(* The passes of pickE6CapsForF50                                          *)
(***************************************************************************)
\* pickE6CapsForF50 is about to evaluate a pair
InPass == fn = "pickE6CapsForF50" /\ pc = "search"

\* the pair about to be evaluated
PassC1 == MapGet(capacitors, decadeOrder[di])[i]

PassC2 == MapGet(capacitors, decadeOrder[dj])[j]

\* the decade of a capacitor
DecadeOfValue(c) == FloorInt(FLog10(c))

\* the seed of the call is a finite positive number
SeedGiven == args.cBase.k # "undefined" /\ IsFinite(args.cBase) /\ FGt(args.cBase, Zero)

\* the geometric-mean capacitance of the target: 1/(2 pi 0.5 rPotMax fTarget)
GeometricMean ==
  FDiv(One, FMul(FMul(FMul(Two, PI), FMul(Half, args.rPotMax)), args.fTarget))

\* no decade of the window is nearer the decade of c than d
NearestDecade(d, c) ==
  \A e \in MIN_DECADE..MAX_DECADE :
    MaxI(d - DecadeOfValue(c), DecadeOfValue(c) - d)
      <= MaxI(e - DecadeOfValue(c), DecadeOfValue(c) - e)

\* C26: the first pass of pickE6CapsForF50 evaluates only pairs whose two
\* capacitors are in one decade: the decade nearest the seed when a seed is
\* given, otherwise the decade nearest the geometric-mean capacitance of the
\* target
C26_FirstPassDecade ==
  (InPass /\ count = 1)
  => /\ DecadeOfValue(PassC1) = DecadeOfValue(PassC2)
     /\ NearestDecade(DecadeOfValue(PassC1),
                      IF SeedGiven THEN args.cBase ELSE GeometricMean)

\* the capacitors of the first k decades of the decade order
FirstDecades(k) ==
  UNION {{MapGet(capacitors, decadeOrder[p])[x] :
            x \in 1..Len(MapGet(capacitors, decadeOrder[p]))} : p \in 1..k}

\* some pair of the first k decades is within the tolerance of the call
WithinInDecades(k) ==
  \E c1 \in FirstDecades(k), c2 \in FirstDecades(k) : PairWithin(c1, c2)

\* the pair about to be evaluated is the last of its pass
LastOfPass ==
  /\ di = count /\ dj = count
  /\ i = Len(MapGet(capacitors, decadeOrder[di]))
  /\ j = Len(MapGet(capacitors, decadeOrder[dj]))

\* the positions of the pair after the one about to be evaluated, in the order
\* of the four loops
NextOfPass ==
  IF j < Len(MapGet(capacitors, decadeOrder[dj])) THEN <<di, dj, i, j + 1>>
  ELSE IF i < Len(MapGet(capacitors, decadeOrder[di])) THEN <<di, dj, i + 1, 1>>
  ELSE IF dj < count THEN <<di, dj + 1, 1, 1>>
  ELSE <<di + 1, 1, 1, 1>>

\* one step of a pass of pickE6CapsForF50
PassStep ==
  InPass
  => /\ count \in 1..Len(decadeOrder) /\ Len(decadeOrder) <= 7
     /\ di \in 1..count /\ dj \in 1..count
     /\ IF ~LastOfPass
        THEN pc' = "search" /\ count' = count /\ <<di', dj', i', j'>> = NextOfPass
        ELSE IF WithinInDecades(count) THEN pc' = "return" /\ count' = count
        ELSE IF count = Len(decadeOrder) THEN pc' = "return"
        ELSE /\ pc' = "search" /\ count' = count + 1
             /\ <<di', dj', i', j'>> = <<1, 1, 1, 1>>

\* C27: pass k of pickE6CapsForF50 evaluates exactly the pairs of the first k
\* decades of the decade order, each pass adding one decade; the search stops
\* after the first pass in which some evaluated pair is within the tolerance,
\* and otherwise after the pass over all decades of the window, so within 7
\* passes, and no decade is added once a pair within the tolerance was found
C27_PassesWiden == [][PassStep]_vars

\* the search for 1 kHz and 46.8 kOhm has stopped after a pass over more than
\* one decade and fewer than seven, with a pair within the tolerance
C27_StoppedWhenWithin ==
  /\ pc = "done" /\ fn = "pickE6CapsForF50" /\ args = PotCommon
  /\ count > 1 /\ count < Len(decadeOrder)
  /\ WithinInDecades(count) /\ ~WithinInDecades(count - 1)

\* the passes the search has made
PassesMade == MinI(count, Len(decadeOrder))

\* the candidate of the pair pickE6CapsForF50 has returned
PickedCandidate ==
  createCandidate(result.c1, result.c2, args.fTarget, FMul(Half, args.rPotMax))

\* C28: the candidate pickE6CapsForF50 returns is the best under its
\* comparator (logError, then qPenalty, then total capacitance, then spread)
\* of all pairs evaluated up to the pass at which the search stopped: no
\* evaluated pair compares strictly better
C28_ComparatorBest ==
  (Picking /\ result.tag = "result")
  => \A c1 \in FirstDecades(PassesMade), c2 \in FirstDecades(PassesMade) :
       LET candidate == createCandidate(c1, c2, args.fTarget, FMul(Half, args.rPotMax))
       IN  candidate.tag # "null"
           => ~FLt(compareCandidateScores(candidate, PickedCandidate), Zero)


\* the decades around the enumerated ones, -12 to 6
WindowDecades == (-16)..10

\* the E6 value of a mantissa and a decade
E6Value(m, k) == FMul(E6_SERIES[m], Lit(1, k))

\* C29: the series of generateE6Capacitors is complete over any valid window:
\* every E6 value m * 10^k with min <= m * 10^k <= max, whatever the decade k,
\* is in the series returned.
C29_CompleteOverWindow ==
  Generated =>
    \A m \in 1..Len(E6_SERIES), k \in WindowDecades :
      (FGe(E6Value(m, k), WindowMin) /\ FLe(E6Value(m, k), WindowMax)) =>
        \E n \in 1..Len(result.values) : result.values[n] = E6Value(m, k)


\* C30: for a finite positive target and finite positive capacitors with
\* c1 >= 4 Q^2 c2, solveResistorsForCapacitors returns a pair: neither the
\* error of the discriminant test nor the degenerate-solution error.
C30_PairPastPreCheck ==
  (Solving /\ FGe(args.c1, FourQSquared(args.c2))) => result.tag = "pair"

=============================================================================
